---- MODULE Spec2Model ----
(***************************************************************************)
(* A state-machine model of the AE animation timeline editor               *)
(* (src/js/timeline.js, class AeTimelineView).                             *)
(*                                                                         *)
(* Numbers.  JavaScript numbers are modelled as integers in fixed point:   *)
(*   - a time is a number of ticks, TicksPerSecond ticks to the second,    *)
(*     so that toFixed(2) (rounding to a centisecond) is a real rounding;  *)
(*   - a property value is a number of hundredths (scale 1.0 is 100,       *)
(*     x = -100 px is -10000);                                             *)
(*   - a real quotient is the floor of the exact quotient.                 *)
(* Undefined and NaN are two integers outside every numeric range used.    *)
(***************************************************************************)
EXTENDS Integers, Sequences, FiniteSets, TLC

\* src/js/timeline.js:6
KF_PROPS == <<"x", "y", "scale_x", "scale_y", "rotation", "opacity", "mask_size", "flip_h", "flip_v">>

Props == {KF_PROPS[i] : i \in 1..Len(KF_PROPS)}

TicksPerCenti == 2 + 2

TicksPerSecond == 100 * TicksPerCenti

\* One unit of a property value, in hundredths.
One == 10 * 10

Undefined == 0 - 2000000000

NaN == 0 - 2000000001

IsNum(v) == v # Undefined /\ v # NaN

\* A falsy number for JavaScript's || : 0, NaN or undefined.
Falsy(v) == v = 0 \/ ~IsNum(v)

Or(v, d) == IF Falsy(v) THEN d ELSE v

Max(a, b) == IF a >= b THEN a ELSE b

Min(a, b) == IF a <= b THEN a ELSE b

Abs(a) == IF a < 0 THEN 0 - a ELSE a

SetMin(S) == CHOOSE m \in S : \A k \in S : m <= k

\* Number.prototype.toFixed(2) of a time: the nearest centisecond, a tie
\* going to the larger one.
ToFixed2(t) == (t + (TicksPerCenti \div 2)) \div TicksPerCenti

\* A layer id is a prefix and a number: "extracted_0" is Id("extracted", 0),
\* so that String.prototype.startsWith is a test of the prefix.
Id(pre, n) == [pre |-> pre, n |-> n]

NullId == Id("null", 0)

BackgroundId == Id("background", 0)

\* An encoded or decoded raster: who made it and a serial number.
Raster(src, n) == [src |-> src, n |-> n]

NoRaster == Raster("none", 0)

Kf(t, v) == [time |-> t, value |-> v]

EmptyKeyframes == [p \in Props |-> <<>>]

(***************************************************************************)
(* Bounds of the model and the inputs the environment may supply.          *)
(***************************************************************************)

\* At most this many layers in the registry.
MaxLayers == 3

\* At most this many load() calls in one behaviour.
MaxLoads == 2

\* The clock advances at most this many steps of PbStep.
MaxAdvances == 4

\* One step of the clock: 1.5 s.
PbStep == 600

\* At most this many keyframe edits (add, delete, clear, drag, path to
\* keyframes) and wheel steps in one behaviour.
MaxEdits == 3

(***************************************************************************)
(* State.                                                                  *)
(***************************************************************************)
VARIABLES
    width, height, fps, totalFrames, duration,  \* state.width .. state.duration
    canvas,          \* ui.canvas: [w, h]
    currentTime,     \* state.currentTime
    layers,          \* state.layers: a sequence of layer records
    selectedId,      \* state.selectedId
    dragKeyframe,    \* state.dragKeyframe: NoDrag or [layer (oid), prop, index]
    mask,            \* state.mask and the mask canvas
    path,            \* state.path: [enabled, data, dragging]
    extract,         \* state.extract and the extract canvas
    drag,            \* state.draggingLayer and state.dragOffset
    renderPending,   \* this._renderPending
    redraws,         \* the redraw callbacks requestAnimationFrame holds for #render
    persistTimer,    \* this._persistTimer: "none", or the pending timer's argument
    timeouts,        \* the timers of #persist that are neither cleared nor fired
    widgetKeyframes, \* widgets.keyframes.value
    pending,         \* asynchronous work in flight: decodes and their callbacks
    loads,           \* the number of load() calls so far
    edits,           \* the number of keyframe edits so far
    playing,         \* state.playing
    rafId,           \* state.rafId: 0 for null, or the handle of a tick callback
    ticks,           \* the tick callbacks requestAnimationFrame holds for playback
    now,             \* performance.now(), in ticks
    forceServerReload,    \* state.forceServerReload
    lastServerAnimation,  \* _lastServerAnimation: <<>> for null, or <<animation>>
    lastOp,          \* history: what the last handler did
    probe            \* the pixel and coordinate functions: arguments and results

projVars == <<width, height, fps, totalFrames, duration, canvas>>

toolVars == <<mask, path, extract, drag>>

playVars == <<playing, rafId, ticks, now>>

hostVars == <<forceServerReload, lastServerAnimation>>

vars == <<width, height, fps, totalFrames, duration, canvas, currentTime, layers,
          selectedId, dragKeyframe, mask, path, extract, drag, renderPending, redraws,
          persistTimer, timeouts, widgetKeyframes, pending, loads, edits, lastOp, probe,
          playing, rafId, ticks, now, forceServerReload, lastServerAnimation>>

\* No function is being evaluated.
NoProbe == [kind |-> "none"]

NoDrag == [layer |-> 0, prop |-> "none", index |-> 0]

\* null, as the value of path.data and of a layer's bezierPath.
NoPath == [pid |-> 0, pts |-> <<>>]

\* A path object: pid is its identity (a layer's bezierPath and path.data
\* may be one object), pts its control points.
PathObj(pid, pts) == [pid |-> pid, pts |-> pts]

\* timeline.js:154-156: state.mask, state.path and state.extract after
\* #createState.  mask.canvas and extract.painted stand for the pixels of
\* the mask canvas and of the extract canvas: what the mask canvas holds
\* ("blank" before it is first filled), and whether a pixel of the extract
\* canvas is above the selection threshold.  extract.erasing is the
\* compositing mode of the extract canvas.
NoMaskTool ==
    [enabled |-> FALSE, drawing |-> FALSE, erase |-> FALSE, brush |-> 20, canvas |-> "blank"]

NoPathTool == [enabled |-> FALSE, data |-> NoPath, dragging |-> 0]

NoExtractTool == [enabled |-> FALSE, drawing |-> FALSE, erasing |-> FALSE, painted |-> FALSE]

\* timeline.js:150-151: draggingLayer and dragOffset.
NoLayerDrag == [active |-> FALSE, x |-> 0, y |-> 0]

\* What the last handler did: its name, whether it reached #applyTime last
\* (so the layers hold the values of currentTime), whether it called
\* #persist, and how many samples it removed from the tracks.
Op(name, applied, persisted, removed) ==
    [name |-> name, applied |-> applied, persisted |-> persisted, removed |-> removed]

(***************************************************************************)
(* Layers.                                                                 *)
(***************************************************************************)

\* The object identities in use: layers are JavaScript objects, and a
\* pending callback or a drag keeps a reference to the object, not to its id.
UsedOids ==
    {layers[i].oid : i \in 1..Len(layers)}
        \cup {p.target : p \in pending}
        \cup {p.newLayer.oid : p \in {q \in pending : q.kind = "extract"}}
        \cup {dragKeyframe.layer}

FreshOid(avoid) == SetMin({n \in 1..(Cardinality(UsedOids \cup avoid) + 1) : n \notin UsedOids \cup avoid})

IndexOfOid(ls, oid) == {i \in 1..Len(ls) : ls[i].oid = oid}

\* Array.prototype.find: the first element satisfying the test, 0 for none.
FindIndex(ls, Test(_)) ==
    LET hits == {i \in 1..Len(ls) : Test(ls[i])}
    IN IF hits = {} THEN 0 ELSE SetMin(hits)

\* src/js/timeline.js:666 #currentLayer, as an index into state.layers.
CurrentLayerIndex == FindIndex(layers, LAMBDA l : l.id = selectedId)

HasCurrentLayer == CurrentLayerIndex # 0

CurrentLayer == layers[CurrentLayerIndex]

\* A layer object.  Every layer record has every field; a field the code
\* never set on the object is Undefined.
Layer(oid, id, type, image_data, img, opacity, mask_size) ==
    [oid |-> oid, id |-> id, type |-> type,
     image_data |-> image_data, img |-> img, imgLoading |-> FALSE,
     keyframes |-> EmptyKeyframes,
     x |-> 0, y |-> 0, scale_x |-> One, scale_y |-> One, rotation |-> 0,
     opacity |-> opacity, mask_size |-> mask_size, flip_h |-> 0, flip_v |-> 0,
     bg_mode |-> "fit", customMask |-> "", bezierPath |-> NoPath]

\* src/js/timeline.js:1317 #normalizeLayer: a layer descriptor d of a load()
\* payload becomes a layer object.  d has the fields of a layer record, a
\* number the payload does not give being Undefined, a string "" and a
\* path <<>>; oid and pid are the identities of the new layer object and of
\* its path object.
normalizeLayer(d, oid, pid) ==
    LET sx == IF d.scale_x # Undefined THEN d.scale_x
              ELSE IF d.scale # Undefined THEN d.scale ELSE One
        sy == IF d.scale_y # Undefined THEN d.scale_y
              ELSE IF d.scale # Undefined THEN d.scale ELSE One
    IN [oid |-> oid, id |-> d.id,
        type |-> IF d.type = "" THEN "foreground" ELSE d.type,
        image_data |-> d.image_data, img |-> NoRaster, imgLoading |-> FALSE,
        keyframes |-> d.keyframes,
        x |-> Or(d.x, 0), y |-> Or(d.y, 0),
        scale_x |-> sx, scale_y |-> sy,
        rotation |-> Or(d.rotation, 0),
        opacity |-> IF d.opacity # Undefined THEN d.opacity ELSE One,
        mask_size |-> IF d.mask_size # Undefined THEN d.mask_size ELSE One,
        flip_h |-> Or(d.flip_h, 0), flip_v |-> Or(d.flip_v, 0),
        bg_mode |-> IF d.bg_mode = "" THEN "fit" ELSE d.bg_mode,
        customMask |-> d.customMask,
        bezierPath |-> IF d.bezierPath = <<>> THEN NoPath ELSE PathObj(pid, d.bezierPath)]

\* A layer descriptor with the given id, type and raster and nothing else.
Descriptor(id, type, image_data) ==
    [id |-> id, type |-> type, image_data |-> image_data,
     keyframes |-> EmptyKeyframes,
     x |-> Undefined, y |-> Undefined, scale |-> Undefined,
     scale_x |-> Undefined, scale_y |-> Undefined, rotation |-> Undefined,
     opacity |-> Undefined, mask_size |-> Undefined,
     flip_h |-> Undefined, flip_v |-> Undefined,
     bg_mode |-> "", customMask |-> "", bezierPath |-> <<>>]

(***************************************************************************)
(* Keyframe tracks and their evaluation.                                   *)
(***************************************************************************)

\* One insertion of a stable sort by time: kf goes after every sample whose
\* time is not later than its own.
RECURSIVE InsertByTime(_, _)
InsertByTime(sorted, kf) ==
    IF sorted = <<>> THEN <<kf>>
    ELSE IF Head(sorted).time <= kf.time
         THEN <<Head(sorted)>> \o InsertByTime(Tail(sorted), kf)
         ELSE <<kf>> \o sorted

\* Array.prototype.sort((a, b) => a.time - b.time), which is stable.
RECURSIVE SortByTime(_)
SortByTime(s) ==
    IF s = <<>> THEN <<>>
    ELSE InsertByTime(SortByTime(SubSeq(s, 1, Len(s) - 1)), s[Len(s)])

\* A filter that compares the times themselves, not their two-decimal
\* prints.
DropAtExactTime(track, t) ==
    LET Keep(kf) == kf.time # t
    IN SelectSeq(track, Keep)

\* The filter of #addKeyframe and #deleteKeyframe (timeline.js:1421, 1436):
\* the samples whose time does not print as t does with two decimals.
DropAtTime(track, t) ==
    LET Keep(kf) == ToFixed2(kf.time) # ToFixed2(t)
    IN SelectSeq(track, Keep)

\* An evaluation that holds the value of a until b.
LerpHold(a, b, ct) == a.value

\* timeline.js:689-690: the value between samples a and b at time ct.
Lerp(a, b, ct) ==
    IF ~IsNum(a.value) \/ ~IsNum(b.value) THEN NaN
    ELSE a.value + ((b.value - a.value) * (ct - a.time)) \div Or(b.time - a.time, 1)

\* timeline.js:675-693: the value #applyTime gives a property whose track is
\* `track` at time ct; old is the value the property has.
EvalProp(track, ct, old) ==
    LET frames == SortByTime(track)
        n == Len(frames)
        hits == {i \in 1..(n - 1) : frames[i].time <= ct /\ ct <= frames[i + 1].time}
    IN IF n = 0 THEN old
       ELSE IF ct <= frames[1].time THEN frames[1].value
       ELSE IF ct >= frames[n].time THEN frames[n].value
       ELSE IF hits = {} THEN old
       ELSE Lerp(frames[SetMin(hits)], frames[SetMin(hits) + 1], ct)

\* timeline.js:671: the time #applyTime adopts when the duration is d.
ClampTo(d, t) == Max(0, Min(d, t))

ClampTime(t) == ClampTo(duration, t)

\* timeline.js:672-695: the layers after #applyTime at (clamped) time ct.
ApplyTimeLayer(l, ct) ==
    [f \in DOMAIN l |-> IF f \in Props THEN EvalProp(l.keyframes[f], ct, l[f]) ELSE l[f]]

ApplyTimeLayers(ls, ct) == [i \in 1..Len(ls) |-> ApplyTimeLayer(ls[i], ct)]

(***************************************************************************)
(* Rendering, persistence and the project settings.                        *)
(***************************************************************************)

NoTimer == [set |-> FALSE, include |-> FALSE]

\* timeline.js:969-973 #persist: without the keyframes widget nothing
\* happens; otherwise the pending timer is cleared and a new one is set.
PersistTimerAfter(includeImageCache) ==
    IF widgetKeyframes.present THEN [set |-> TRUE, include |-> includeImageCache]
    ELSE persistTimer

\* clearTimeout clearing nothing.
clearTimeoutNothing(n, live) == n

\* timeline.js:972 clearTimeout(this._persistTimer): of n timers, those left
\* when the timer this._persistTimer names is live or is not.
clearTimeout(n, live) == IF live THEN n - 1 ELSE n

\* timeline.js:970-973: the timers there are after #persist.
timeoutsAfterPersist(present, live, n) == IF present THEN clearTimeout(n, live) + 1 ELSE n

\* timeline.js:969-973 #persist(includeImageCache).
persist(includeImageCache) ==
    /\ persistTimer' = PersistTimerAfter(includeImageCache)
    /\ timeouts' = timeoutsAfterPersist(widgetKeyframes.present, persistTimer.set, timeouts)

\* #render without its early return.
redrawsAfterRenderUnguarded(flag, n) == n + 1

\* timeline.js:702-704: the redraw callbacks there are after #render, n
\* before it, _renderPending being flag.
redrawsAfterRender(flag, n) == IF flag THEN n ELSE n + 1

\* timeline.js:701-704 #render, up to requestAnimationFrame.
render ==
    /\ renderPending' = TRUE
    /\ redraws' = redrawsAfterRender(renderPending, redraws)

\* timeline.js:974-1010: what the timer writes for one layer, as a layer
\* descriptor (a field the payload leaves out is Undefined, "" or absent).
Save(l, includeImageCache) ==
    LET keep == (includeImageCache \/ l.id.pre = "extracted" \/ l.id.pre = "uploaded"
                   \/ l.type = "background") /\ l.image_data # NoRaster
        bg == l.type = "background"
        Def(v, d) == IF v # Undefined THEN v ELSE d
    IN [id |-> l.id, type |-> l.type,
        image_data |-> IF keep THEN l.image_data ELSE NoRaster,
        keyframes |-> l.keyframes,
        flip_h |-> Or(l.flip_h, 0), flip_v |-> Or(l.flip_v, 0),
        scale_x |-> Def(l.scale_x, One), scale_y |-> Def(l.scale_y, One),
        scale |-> One,
        bg_mode |-> IF bg THEN l.bg_mode ELSE "",
        x |-> IF bg THEN (IF Falsy(l.x) THEN Undefined ELSE l.x) ELSE Def(l.x, 0),
        y |-> IF bg THEN (IF Falsy(l.y) THEN Undefined ELSE l.y) ELSE Def(l.y, 0),
        rotation |-> IF bg THEN (IF Falsy(l.rotation) THEN Undefined ELSE l.rotation)
                     ELSE Def(l.rotation, 0),
        opacity |-> IF bg THEN Undefined ELSE Def(l.opacity, One),
        mask_size |-> IF bg THEN Undefined ELSE Def(l.mask_size, One),
        customMask |-> IF bg THEN "" ELSE l.customMask,
        bezierPath |-> IF bg THEN <<>> ELSE l.bezierPath.pts]

Payload(ls, includeImageCache) == [i \in 1..Len(ls) |-> Save(ls[i], includeImageCache)]

Widget(present, valid, ls) == [present |-> present, valid |-> valid, layers |-> ls]

\* timeline.js:1303 #coerceInt with no bounds: v is the parsed integer, or
\* NaN when the text is no number.
coerceInt(v, fallback) == IF IsNum(v) THEN v ELSE fallback

\* timeline.js:1303 #coerceInt with { min, max }.
coerceIntIn(v, fallback, lo, hi) == Min(hi, Max(lo, coerceInt(v, fallback)))

MinSize == 64

MaxSize == 8192

MinFps == 1

MaxFps == 120

MinFrames == 1

MaxFrames == 9999

PreviewMaxW == 1920

PreviewMaxH == 1080

\* timeline.js:1035-1053 #setResolution: the width, height and canvas after
\* it, from the ones before.
setResolution(w, h, cur) ==
    LET nextWidth == coerceIntIn(w, cur.width, MinSize, MaxSize)
        nextHeight == coerceIntIn(h, cur.height, MinSize, MaxSize)
    IN IF nextWidth = cur.width /\ nextHeight = cur.height THEN cur
       ELSE [width |-> nextWidth, height |-> nextHeight,
             canvas |-> [w |-> Min(nextWidth, PreviewMaxW), h |-> Min(nextHeight, PreviewMaxH)]]

Resolution == [width |-> width, height |-> height, canvas |-> canvas]

\* timeline.js:1102: totalFrames / Math.max(fps, 1), in ticks.
DurationOf(frames, f) == (frames * TicksPerSecond) \div Max(f, 1)

\* timeline.js:1021-1033 #syncLayerSelect: the selection after it.
syncLayerSelect(ls, sel) ==
    IF Len(ls) = 0 THEN NullId
    ELSE IF \E i \in 1..Len(ls) : ls[i].id = sel THEN sel
    ELSE ls[1].id

(***************************************************************************)
(* load() and the constructor.                                             *)
(***************************************************************************)

\* The object identities something other than state.layers refers to.
RefOids ==
    {p.target : p \in pending}
        \cup {p.newLayer.oid : p \in {q \in pending : q.kind = "extract"}}
        \cup {dragKeyframe.layer}

\* The k smallest identities that `used` does not hold, in order.
RECURSIVE NewOids(_, _)
NewOids(k, used) ==
    IF k = 0 THEN <<>>
    ELSE LET n == SetMin({m \in 1..(Cardinality(used) + 1) : m \notin used})
         IN <<n>> \o NewOids(k - 1, used \cup {n})

\* A project descriptor; 0 stands for a field the payload does not give.
Project(d, f, n, w, h) == [duration |-> d, fps |-> f, total_frames |-> n, width |-> w, height |-> h]

Animation(project, ds) == [project |-> project, layers |-> ds]

\* One decode started by #loadImages (timeline.js:650-661) for the layer
\* object `target`, in the load numbered `job`.
BulkDecode(job, target, data) == [kind |-> "bulk", job |-> job, target |-> target, data |-> data]

\* timeline.js:48-54: the callback of load() once every decode has
\* settled, on the state cur: #syncLayerSelect, #applyTime, #persist(true).
loadImagesThen(cur) ==
    LET ct == ClampTo(cur.duration, cur.currentTime)
    IN [cur EXCEPT !.selectedId = syncLayerSelect(cur.layers, cur.selectedId),
                   !.currentTime = ct,
                   !.layers = ApplyTimeLayers(cur.layers, ct),
                   !.renderPending = TRUE,
                   !.redraws = redrawsAfterRender(cur.renderPending, cur.redraws),
                   !.persistTimer = IF cur.widgetPresent THEN [set |-> TRUE, include |-> TRUE]
                                    ELSE cur.persistTimer,
                   !.timeouts = timeoutsAfterPersist(cur.widgetPresent, cur.persistTimer.set,
                                                     cur.timeouts)]

\* timeline.js:34-55 load(animation) on the state cur; refs and pathRefs are
\* the identities of the layer and path objects still referred to and job
\* numbers this load.
load(cur, a, refs, pathRefs, job) ==
    LET p == a.project
        res == setResolution(Or(p.width, cur.width), Or(p.height, cur.height),
                             [width |-> cur.width, height |-> cur.height, canvas |-> cur.canvas])
        oids == NewOids(Len(a.layers), refs)
        pids == NewOids(Len(a.layers), pathRefs)
        ls == [i \in 1..Len(a.layers) |-> normalizeLayer(a.layers[i], oids[i], pids[i])]
        decodes == {BulkDecode(job, ls[i].oid, ls[i].image_data) :
                      i \in {j \in 1..Len(ls) : ls[j].image_data # NoRaster}}
        loaded == [cur EXCEPT !.duration = Or(p.duration, 5 * TicksPerSecond),
                              !.fps = Or(p.fps, 30),
                              !.totalFrames = Or(p.total_frames,
                                    (Or(p.fps, 30) * Or(p.duration, 5 * TicksPerSecond)) \div TicksPerSecond),
                              !.width = res.width, !.height = res.height, !.canvas = res.canvas,
                              !.layers = ls,
                              !.pending = cur.pending \cup decodes]
    IN IF decodes = {} THEN loadImagesThen(loaded) ELSE loaded

\* timeline.js:140-161 #createState, with the fields of `this` and of the
\* user interface the model keeps beside it.
createState ==
    [width |-> 1280, height |-> 720, canvas |-> [w |-> 1280, h |-> 720],
     duration |-> 5 * TicksPerSecond, fps |-> 16, totalFrames |-> 81,
     currentTime |-> 0, layers |-> <<>>, selectedId |-> NullId,
     renderPending |-> FALSE, redraws |-> 0, persistTimer |-> NoTimer, timeouts |-> 0,
     pending |-> {},
     widgetPresent |-> TRUE]

\* #loadFromWidget loading whatever layers the text of the widget holds.
constructedUnparsed(ww, wh, w) ==
    LET w0 == coerceInt(ww, createState.width)
        h0 == coerceInt(wh, createState.height)
        built == [createState EXCEPT !.width = w0, !.height = h0,
                     !.canvas = [w |-> Min(w0, PreviewMaxW), h |-> Min(h0, PreviewMaxH)],
                     !.widgetPresent = w.present]
    IN IF ~w.present THEN built
       ELSE load(built, Animation(Project(built.duration, built.fps, built.totalFrames, 0, 0), w.layers),
                 {0}, {0}, 1)

\* timeline.js:9-23 constructor and :57-73 #loadFromWidget: the state after
\* construction on a node whose width and height widgets hold ww and wh
\* (NaN: no such widget, or no number) and whose keyframes widget is w.
constructed(ww, wh, w) ==
    LET w0 == coerceInt(ww, createState.width)
        h0 == coerceInt(wh, createState.height)
        built == [createState EXCEPT !.width = w0, !.height = h0,
                     !.canvas = [w |-> Min(w0, PreviewMaxW), h |-> Min(h0, PreviewMaxH)],
                     !.widgetPresent = w.present]
    IN IF ~w.present \/ ~w.valid THEN built
       ELSE load(built, Animation(Project(built.duration, built.fps, built.totalFrames, 0, 0), w.layers),
                 {0}, {0}, 1)

\* The variables of the editor take the values of the state record st.
InitState(st, w) ==
    /\ width = st.width /\ height = st.height /\ canvas = st.canvas
    /\ duration = st.duration /\ fps = st.fps /\ totalFrames = st.totalFrames
    /\ currentTime = st.currentTime /\ layers = st.layers /\ selectedId = st.selectedId
    /\ renderPending = st.renderPending /\ persistTimer = st.persistTimer
    /\ redraws = st.redraws /\ timeouts = st.timeouts
    /\ pending = st.pending
    /\ widgetKeyframes = w
    /\ dragKeyframe = NoDrag
    /\ mask = NoMaskTool /\ path = NoPathTool /\ extract = NoExtractTool /\ drag = NoLayerDrag
    /\ loads = IF w.present /\ w.valid THEN 1 ELSE 0
    /\ edits = 0
    /\ playing = FALSE /\ rafId = 0 /\ ticks = {} /\ now = 0
    /\ forceServerReload = FALSE /\ lastServerAnimation = <<>>
    /\ lastOp = Op("constructor", w.present /\ w.valid /\ st.pending = {}, FALSE, 0)

\* The state after construction, no function being evaluated.
InitFrom(st, w) == InitState(st, w) /\ probe = NoProbe

\* The state as a record, for the operators above.
Cur ==
    [width |-> width, height |-> height, canvas |-> canvas,
     duration |-> duration, fps |-> fps, totalFrames |-> totalFrames,
     currentTime |-> currentTime, layers |-> layers, selectedId |-> selectedId,
     renderPending |-> renderPending, redraws |-> redraws,
     persistTimer |-> persistTimer, timeouts |-> timeouts, pending |-> pending,
     widgetPresent |-> widgetKeyframes.present]

\* The primed variables of the state record take the values of st.
Becomes(st) ==
    /\ width' = st.width /\ height' = st.height /\ canvas' = st.canvas
    /\ duration' = st.duration /\ fps' = st.fps /\ totalFrames' = st.totalFrames
    /\ currentTime' = st.currentTime /\ layers' = st.layers /\ selectedId' = st.selectedId
    /\ renderPending' = st.renderPending /\ persistTimer' = st.persistTimer
    /\ redraws' = st.redraws /\ timeouts' = st.timeouts
    /\ pending' = st.pending

\* load(animation), called by the host (timeline.js:2229, 2278, 1725).
Load(a) ==
    /\ loads < MaxLoads
    /\ Len(a.layers) <= MaxLayers
    /\ LET st == load(Cur, a, RefOids, {0, path.data.pid}, loads + 1)
       IN /\ Becomes(st)
          /\ lastOp' = Op("load", st.pending = pending, st.pending = pending, 0)
          /\ UNCHANGED <<playVars, hostVars>>
          /\ UNCHANGED probe
    /\ loads' = loads + 1
    /\ UNCHANGED <<dragKeyframe, toolVars, widgetKeyframes, edits>>

\* timeline.js:2221, 2270: the keyframes widget holds a text, and the text
\* is not "[]".  The text of a widget that holds no layers is "" or "[]".
hasWidgetData(w) == w.present /\ (~w.valid \/ Len(w.layers) > 0)

\* timeline.js:2222-2224, 2271-2273: the animation holds a foreground layer
\* whose id starts with "layer_".
hasExternalLayers(a) ==
    \E i \in 1..Len(a.layers) : a.layers[i].id.pre = "layer" /\ a.layers[i].type = "foreground"

\* timeline.js:2226, 2275: whether an update of the host is loaded.
loadsUpdate(w, a, force) == ~hasWidgetData(w) \/ hasExternalLayers(a) \/ force

\* timeline.js:2212-2237 the ae_animation_update listener and :2262-2285
\* onExecuted: the host pushes the animation a.
HostUpdate(a) ==
    /\ Len(a.layers) <= MaxLayers
    /\ lastServerAnimation' = <<a>>
    /\ IF loadsUpdate(widgetKeyframes, a, forceServerReload)
       THEN /\ loads < MaxLoads
            /\ loads' = loads + 1
            /\ forceServerReload' = FALSE
            /\ Becomes(load(Cur, a, RefOids, {0, path.data.pid}, loads + 1))
            /\ lastOp' = Op("hostUpdate", TRUE, FALSE, 0)
       ELSE /\ lastOp' = Op("hostUpdate", FALSE, FALSE, 0)
            /\ UNCHANGED <<projVars, currentTime, layers, selectedId, renderPending, redraws,
                           persistTimer, timeouts, pending, loads, forceServerReload>>
    /\ UNCHANGED <<playVars, probe>>
    /\ UNCHANGED <<dragKeyframe, toolVars, widgetKeyframes, edits>>

\* timeline.js:1385-1408 #executeNode with the host's queuePrompt at hand:
\* the next update of the host is to be loaded.
ExecuteNode ==
    /\ forceServerReload' = TRUE
    /\ lastOp' = Op("executeNode", FALSE, FALSE, 0)
    /\ UNCHANGED <<playVars, probe, lastServerAnimation>>
    /\ UNCHANGED <<projVars, toolVars, currentTime, layers, selectedId, dragKeyframe,
                   renderPending, redraws, persistTimer, timeouts, widgetKeyframes,
                   pending, loads, edits>>

\* timeline.js:1720-1731 #refreshFromCache, the user confirming or not.
RefreshFromCache(confirm) ==
    /\ IF lastServerAnimation # <<>> /\ confirm
       THEN /\ loads < MaxLoads
            /\ loads' = loads + 1
            /\ forceServerReload' = FALSE
            /\ Becomes(load(Cur, lastServerAnimation[1], RefOids, {0, path.data.pid}, loads + 1))
            /\ lastOp' = Op("refreshFromCache", TRUE, FALSE, 0)
       ELSE /\ lastOp' = Op("refreshFromCache", FALSE, FALSE, 0)
            /\ UNCHANGED <<projVars, currentTime, layers, selectedId, renderPending, redraws,
                           persistTimer, timeouts, pending, loads, forceServerReload>>
    /\ UNCHANGED <<playVars, probe, lastServerAnimation>>
    /\ UNCHANGED <<dragKeyframe, toolVars, widgetKeyframes, edits>>

\* img.onload or img.onerror of one decode of #loadImages
\* (timeline.js:652-659); after the last one of its load, the callback of
\* load().
BulkDecodeDone(p, ok) ==
    /\ p \in pending /\ p.kind = "bulk"
    /\ LET ls == [i \in 1..Len(layers) |->
                    IF layers[i].oid = p.target /\ ok
                    THEN [layers[i] EXCEPT !.img = p.data] ELSE layers[i]]
           rest == pending \ {p}
           last == ~\E q \in rest : q.kind = "bulk" /\ q.job = p.job
           decoded == [Cur EXCEPT !.layers = ls, !.pending = rest]
       IN /\ Becomes(IF last THEN loadImagesThen(decoded) ELSE decoded)
          /\ lastOp' = Op("decoded", last, last, 0)
          /\ UNCHANGED <<playVars, hostVars>>
          /\ UNCHANGED probe
    /\ UNCHANGED <<dragKeyframe, toolVars, widgetKeyframes, loads, edits>>

(***************************************************************************)
(* The deferred callbacks: redraw, persist timer, lazy decode.             *)
(***************************************************************************)

\* One decode started by #ensureLayerImage (timeline.js:1256-1268).
LazyDecode(target, data) == [kind |-> "lazy", job |-> 0, target |-> target, data |-> data]

\* timeline.js:1257: whether #ensureLayerImage starts a decode for l.
StartsLazyDecode(l) == l.image_data # NoRaster /\ ~l.imgLoading

\* The callback of #render leaving _renderPending set.
RenderFrameKeepsFlag ==
    /\ redraws > 0
    /\ redraws' = redraws - 1
    /\ renderPending' = renderPending
    /\ LET lazy == {i \in 1..Len(layers) : layers[i].img = NoRaster /\ StartsLazyDecode(layers[i])}
       IN /\ layers' = [i \in 1..Len(layers) |->
                          IF i \in lazy THEN [layers[i] EXCEPT !.imgLoading = TRUE] ELSE layers[i]]
          /\ pending' = pending \cup {LazyDecode(layers[i].oid, layers[i].image_data) : i \in lazy}
    /\ lastOp' = Op("renderFrame", FALSE, FALSE, 0)
    /\ UNCHANGED <<playVars, hostVars>>
    /\ UNCHANGED probe
    /\ UNCHANGED <<projVars, toolVars, currentTime, selectedId, dragKeyframe,
                   persistTimer, timeouts, widgetKeyframes, loads, edits>>

\* timeline.js:704-793: the requestAnimationFrame callback of #render.  A
\* layer with no decoded raster and an encoded one is handed to
\* #ensureLayerImage; drawing changes no state.
RenderFrame ==
    /\ redraws > 0
    /\ redraws' = redraws - 1
    /\ renderPending' = FALSE
    /\ LET lazy == {i \in 1..Len(layers) : layers[i].img = NoRaster /\ StartsLazyDecode(layers[i])}
       IN /\ layers' = [i \in 1..Len(layers) |->
                          IF i \in lazy THEN [layers[i] EXCEPT !.imgLoading = TRUE] ELSE layers[i]]
          /\ pending' = pending \cup {LazyDecode(layers[i].oid, layers[i].image_data) : i \in lazy}
    /\ lastOp' = Op("renderFrame", FALSE, FALSE, 0)
    /\ UNCHANGED <<playVars, hostVars>>
    /\ UNCHANGED probe
    /\ UNCHANGED <<projVars, toolVars, currentTime, selectedId, dragKeyframe,
                   persistTimer, timeouts, widgetKeyframes, loads, edits>>

\* timeline.js:1260-1267: a decode of #ensureLayerImage settles.
LazyDecodeDone(p, ok) ==
    /\ p \in pending /\ p.kind = "lazy"
    /\ pending' = pending \ {p}
    /\ layers' = [i \in 1..Len(layers) |->
                    IF layers[i].oid = p.target
                    THEN [layers[i] EXCEPT !.img = IF ok THEN p.data ELSE @, !.imgLoading = FALSE]
                    ELSE layers[i]]
    /\ render
    /\ lastOp' = Op("lazyDecoded", FALSE, FALSE, 0)
    /\ UNCHANGED <<playVars, hostVars>>
    /\ UNCHANGED probe
    /\ UNCHANGED <<projVars, toolVars, currentTime, selectedId, dragKeyframe,
                   persistTimer, timeouts, widgetKeyframes, loads, edits>>

\* timeline.js:1270-1282 #clearUnusedCache: the decoded raster of every
\* layer whose id is not the selected one is deleted.
ClearUnusedCache ==
    /\ layers' = [i \in 1..Len(layers) |->
                    IF layers[i].id = selectedId THEN layers[i]
                    ELSE [layers[i] EXCEPT !.img = NoRaster]]
    /\ render
    /\ lastOp' = Op("clearUnusedCache", FALSE, FALSE, 0)
    /\ UNCHANGED <<playVars, hostVars>>
    /\ UNCHANGED probe
    /\ UNCHANGED <<projVars, toolVars, currentTime, selectedId, dragKeyframe,
                   persistTimer, timeouts, widgetKeyframes, pending, loads, edits>>

\* timeline.js:973-1018: the timer of #persist fires.
PersistFire ==
    /\ persistTimer.set
    /\ widgetKeyframes' = Widget(TRUE, TRUE, Payload(layers, persistTimer.include))
    /\ persistTimer' = NoTimer
    /\ timeouts' = timeouts - 1
    /\ lastOp' = Op("persistFire", FALSE, FALSE, 0)
    /\ UNCHANGED <<playVars, hostVars>>
    /\ UNCHANGED probe
    /\ UNCHANGED <<projVars, toolVars, currentTime, layers, selectedId, dragKeyframe,
                   renderPending, redraws, pending, loads, edits>>

(***************************************************************************)
(* The timeline: scrubbing, keyframes, keyframe drag.                      *)
(***************************************************************************)

\* timeline.js:346: the timeline canvas is 1000 pixels wide.
TimelineWidth == 1000

\* timeline.js:2176
hitRadius == 6

\* A pointer position on the timeline is a fraction fx / FractionUnit of
\* its width (timeline.js:2165 #timelinePosition).
FractionUnit == 4 * TimelineWidth

\* timeline.js:2188, 2194: x * this.state.duration.
TimeAt(fx) == (fx * duration) \div FractionUnit

\* timeline.js:2180-2181: the pointer at fx is within hitRadius pixels of a
\* sample at time t.
Hit(t, fx) ==
    Abs(t * FractionUnit - fx * duration)
        <= hitRadius * (FractionUnit \div TimelineWidth) * Abs(duration)

\* timeline.js:2177-2186: the samples of layer l under the pointer, as
\* <<position of the property in KF_PROPS, index in the track>>.
HitsOf(l, fx) ==
    UNION {{<<k, i>> : i \in {j \in 1..Len(l.keyframes[KF_PROPS[k]]) :
                                Hit(l.keyframes[KF_PROPS[k]][j].time, fx)}} :
           k \in 1..Len(KF_PROPS)}

\* The first of them in the order of the two loops.
FirstHit(H) == CHOOSE h \in H : \A g \in H : h[1] < g[1] \/ (h[1] = g[1] /\ h[2] <= g[2])

\* timeline.js:670-699 #applyTime(t), as a step: the new time, the layers
\* ls evaluated at it, and a redraw requested.
ApplyTime(ls, t) ==
    /\ currentTime' = ClampTime(t)
    /\ layers' = ApplyTimeLayers(ls, ClampTime(t))
    /\ render

\* timeline.js:2172-2189 #onTimelineDown: the pointer goes down at fx, on
\* the keyframe row or off it.
TimelineDown(fx, onRow) ==
    LET i == CurrentLayerIndex
        H == IF i # 0 /\ layers[i].type # "background" /\ onRow THEN HitsOf(layers[i], fx) ELSE {}
    IN /\ IF H # {}
          THEN /\ edits < MaxEdits
               /\ edits' = edits + 1
               /\ dragKeyframe' = [layer |-> layers[i].oid, prop |-> KF_PROPS[FirstHit(H)[1]],
                                   index |-> FirstHit(H)[2]]
               /\ lastOp' = Op("timelineDown", FALSE, FALSE, 0)
               /\ UNCHANGED <<playVars, hostVars>>
               /\ UNCHANGED probe
               /\ UNCHANGED <<currentTime, layers, renderPending, redraws>>
          ELSE /\ ApplyTime(layers, TimeAt(fx))
               /\ lastOp' = Op("scrub", TRUE, FALSE, 0)
               /\ UNCHANGED <<playVars, hostVars>>
               /\ UNCHANGED probe
               /\ UNCHANGED <<dragKeyframe, edits>>
       /\ UNCHANGED <<projVars, toolVars, selectedId, persistTimer, timeouts, widgetKeyframes, pending, loads>>

\* timeline.js:2198-2199: the track after the sample at `index` is given the
\* time t and the track is sorted.
MoveSample(track, index, t) == SortByTime([track EXCEPT ![index].time = t])

\* timeline.js:2191-2202 #onTimelineMove: the pointer moves to fx.  The
\* dragged layer is an object: when load() has replaced the layers it is no
\* longer in state.layers, and only the time and the timer change.
TimelineMove(fx) ==
    /\ dragKeyframe # NoDrag
    /\ LET newTime == ClampTime(TimeAt(fx))
           at == IndexOfOid(layers, dragKeyframe.layer)
           i == CHOOSE j \in at : TRUE
       IN IF at = {}
          THEN ApplyTime(layers, newTime)
          ELSE /\ dragKeyframe.index <= Len(layers[i].keyframes[dragKeyframe.prop])
               /\ ApplyTime([layers EXCEPT ![i].keyframes[dragKeyframe.prop] =
                                MoveSample(@, dragKeyframe.index, newTime)], newTime)
    /\ persist(FALSE)
    /\ lastOp' = Op("timelineMove", TRUE, TRUE, 0)
    /\ UNCHANGED <<playVars, hostVars>>
    /\ UNCHANGED probe
    /\ UNCHANGED <<projVars, toolVars, selectedId, dragKeyframe, widgetKeyframes, pending, loads, edits>>

\* timeline.js:2204-2206 #onTimelineUp.
TimelineUp ==
    /\ dragKeyframe # NoDrag
    /\ dragKeyframe' = NoDrag
    /\ lastOp' = Op("timelineUp", FALSE, FALSE, 0)
    /\ UNCHANGED <<playVars, hostVars>>
    /\ UNCHANGED probe
    /\ UNCHANGED <<projVars, toolVars, currentTime, layers, selectedId, renderPending, redraws,
                   persistTimer, timeouts, widgetKeyframes, pending, loads, edits>>

\* timeline.js:574-578: the Go button with the time t in the field (NaN:
\* the text of the field is no number).
Go(t) ==
    /\ IF IsNum(t)
       THEN /\ ApplyTime(layers, Max(0, Min(duration, t)))
            /\ lastOp' = Op("go", TRUE, FALSE, 0)
       ELSE /\ lastOp' = Op("go", FALSE, FALSE, 0)
            /\ UNCHANGED <<currentTime, layers, renderPending, redraws>>
    /\ UNCHANGED <<playVars, hostVars>>
    /\ UNCHANGED probe
    /\ UNCHANGED <<projVars, toolVars, selectedId, dragKeyframe, persistTimer, timeouts,
                   widgetKeyframes, pending, loads, edits>>

\* timeline.js:498-501: the layer select changes to the layer with id `id`.
SelectLayer(id) ==
    /\ \E i \in 1..Len(layers) : layers[i].id = id
    /\ selectedId' = id
    /\ ApplyTime(layers, currentTime)
    /\ lastOp' = Op("selectLayer", TRUE, FALSE, 0)
    /\ UNCHANGED <<playVars, hostVars>>
    /\ UNCHANGED probe
    /\ UNCHANGED <<projVars, toolVars, dragKeyframe, persistTimer, timeouts, widgetKeyframes, pending, loads, edits>>

\* timeline.js:1420-1423: the track of one property after Add Keyframe at
\* time t with the value v.
AddSample(track, t, v) == SortByTime(Append(DropAtTime(track, t), Kf(t, v)))

\* The samples of the layer's tracks that print as time t does.
CountAtTime(l, t) ==
    LET n(q) == Len(l.keyframes[q]) - Len(DropAtTime(l.keyframes[q], t))
    IN n("x") + n("y") + n("scale_x") + n("scale_y") + n("rotation") + n("opacity")
         + n("mask_size") + n("flip_h") + n("flip_v")

\* timeline.js:1415-1427 #addKeyframe.
AddKeyframe ==
    /\ HasCurrentLayer
    /\ edits < MaxEdits
    /\ edits' = edits + 1
    /\ layers' = [layers EXCEPT ![CurrentLayerIndex].keyframes =
                     [q \in Props |-> AddSample(@[q], currentTime, CurrentLayer[q])]]
    /\ persist(FALSE)
    /\ lastOp' = Op("addKeyframe", FALSE, TRUE, CountAtTime(CurrentLayer, currentTime))
    /\ UNCHANGED <<playVars, hostVars>>
    /\ UNCHANGED probe
    /\ UNCHANGED <<projVars, toolVars, currentTime, selectedId, dragKeyframe, renderPending, redraws,
                   widgetKeyframes, pending, loads>>

\* A #deleteKeyframe that re-applies the time and persists whether or not a
\* sample was removed.
DeleteKeyframeUnguarded ==
    /\ HasCurrentLayer
    /\ LET removed == CountAtTime(CurrentLayer, currentTime)
           ls == [layers EXCEPT ![CurrentLayerIndex].keyframes =
                     [q \in Props |-> DropAtTime(@[q], currentTime)]]
       IN /\ edits < MaxEdits
          /\ edits' = edits + 1
          /\ ApplyTime(ls, currentTime)
          /\ persist(FALSE)
          /\ lastOp' = Op("deleteKeyframe", removed # 0, removed # 0, removed)
          /\ UNCHANGED <<playVars, hostVars>>
          /\ UNCHANGED probe
    /\ UNCHANGED <<projVars, toolVars, selectedId, dragKeyframe, widgetKeyframes, pending, loads>>

\* timeline.js:1429-1443 #deleteKeyframe.
DeleteKeyframe ==
    /\ HasCurrentLayer
    /\ LET removed == CountAtTime(CurrentLayer, currentTime)
           ls == [layers EXCEPT ![CurrentLayerIndex].keyframes =
                     [q \in Props |-> DropAtTime(@[q], currentTime)]]
       IN /\ IF removed # 0
             THEN /\ edits < MaxEdits
                  /\ edits' = edits + 1
                  /\ ApplyTime(ls, currentTime)
                  /\ persist(FALSE)
             ELSE UNCHANGED <<currentTime, layers, renderPending, redraws, persistTimer, timeouts, edits>>
          /\ lastOp' = Op("deleteKeyframe", removed # 0, removed # 0, removed)
          /\ UNCHANGED <<playVars, hostVars>>
          /\ UNCHANGED probe
    /\ UNCHANGED <<projVars, toolVars, selectedId, dragKeyframe, widgetKeyframes, pending, loads>>

\* timeline.js:1445-1453 #clearKeyframes, the confirmation accepted.
ClearKeyframes ==
    /\ HasCurrentLayer
    /\ edits < MaxEdits
    /\ edits' = edits + 1
    /\ ApplyTime([layers EXCEPT ![CurrentLayerIndex].keyframes = EmptyKeyframes], currentTime)
    /\ persist(FALSE)
    /\ lastOp' = Op("clearKeyframes", TRUE, TRUE, 0)
    /\ UNCHANGED <<playVars, hostVars>>
    /\ UNCHANGED probe
    /\ UNCHANGED <<projVars, toolVars, selectedId, dragKeyframe, widgetKeyframes, pending, loads>>

(***************************************************************************)
(* The bezier path and the keyframes generated from it.                    *)
(***************************************************************************)

Point(x, y) == [x |-> x, y |-> y]

\* timeline.js:1613-1620: the control points of the default path on the
\* canvas c, in hundredths of a pixel.
DefaultPath(c) ==
    LET cx == (c.w * One) \div 2
        cy == (c.h * One) \div 2
    IN <<Point(cx - 200 * One, cy), Point(cx - 100 * One, cy - 100 * One),
         Point(cx + 100 * One, cy + 100 * One), Point(cx + 200 * One, cy)>>

\* The identity of a path object created now.
FreshPid == SetMin({n \in 1..(Len(layers) + 2) :
                      n # path.data.pid /\ \A i \in 1..Len(layers) : n # layers[i].bezierPath.pid})

\* timeline.js:1597-1631 #togglePathMode.
TogglePathMode ==
    LET i == CurrentLayerIndex
    IN /\ IF ~path.enabled
          THEN /\ mask' = [mask EXCEPT !.enabled = FALSE]
               /\ IF i = 0
                  THEN /\ path' = [path EXCEPT !.enabled = FALSE]
                       /\ UNCHANGED <<layers, renderPending, redraws, persistTimer, timeouts>>
                       /\ lastOp' = Op("togglePath", FALSE, FALSE, 0)
                       /\ UNCHANGED <<playVars, hostVars>>
                       /\ UNCHANGED probe
                  ELSE /\ IF layers[i].bezierPath # NoPath
                          THEN /\ path' = [path EXCEPT !.enabled = TRUE, !.data = layers[i].bezierPath]
                               /\ UNCHANGED layers
                          ELSE /\ path' = [path EXCEPT !.enabled = TRUE,
                                                       !.data = PathObj(FreshPid, DefaultPath(canvas))]
                               /\ layers' = [layers EXCEPT
                                                ![i].bezierPath = PathObj(FreshPid, DefaultPath(canvas))]
                       /\ render
                       /\ persist(FALSE)
                       /\ lastOp' = Op("togglePath", FALSE, TRUE, 0)
                       /\ UNCHANGED <<playVars, hostVars>>
                       /\ UNCHANGED probe
          ELSE /\ path' = [path EXCEPT !.enabled = FALSE]
               /\ layers' = IF i # 0 /\ path.data # NoPath
                            THEN [layers EXCEPT ![i].bezierPath = path.data] ELSE layers
               /\ render
               /\ persist(FALSE)
               /\ lastOp' = Op("togglePath", FALSE, TRUE, 0)
               /\ UNCHANGED <<playVars, hostVars>>
               /\ UNCHANGED probe
               /\ UNCHANGED mask
       /\ UNCHANGED <<projVars, extract, drag, currentTime, selectedId, dragKeyframe,
                      widgetKeyframes, pending, loads, edits>>

\* timeline.js:1651-1684 getBezierPoint(i / segments) on the points pts.
getBezierPoint(pts, i, segments) ==
    LET n == Len(pts)
    IN IF n < 4
       THEN LET i1 == (i * (n - 1)) \div segments
                i2 == Min(i1 + 1, n - 1)
                num == (i * (n - 1)) % segments
                a == pts[i1 + 1]
                b == pts[i2 + 1]
            IN Point(a.x + ((b.x - a.x) * num) \div segments,
                     a.y + ((b.y - a.y) * num) \div segments)
       ELSE LET numSegments == (n - 1) \div 3
                segmentIdx == Min((i * numSegments) \div segments, numSegments - 1)
                t == i * numSegments - segmentIdx * segments
                mt == segments - t
                den == segments * segments * segments
                p0 == pts[segmentIdx * 3 + 1]
                p1 == pts[segmentIdx * 3 + 2]
                p2 == pts[segmentIdx * 3 + 3]
                p3 == pts[segmentIdx * 3 + 4]
                B(c0, c1, c2, c3) ==
                    (mt * mt * mt * c0 + 3 * mt * mt * t * c1 + 3 * mt * t * t * c2
                       + t * t * t * c3) \div den
            IN Point(B(p0.x, p1.x, p2.x, p3.x), B(p0.y, p1.y, p2.y, p3.y))

\* timeline.js:1686-1693: the x (axis "x") or y track generated from the
\* path in `segments` steps.
PathTrack(pts, segments, axis) ==
    [k \in 1..(segments + 1) |->
        Kf(((k - 1) * duration) \div segments,
           getBezierPoint(pts, k - 1, segments)[axis]
             - (IF axis = "x" THEN (canvas.w * One) \div 2 ELSE (canvas.h * One) \div 2))]

\* timeline.js:1633-1698 #applyPathToKeyframes, the prompt answered with
\* `segments`.
ApplyPathToKeyframes(segments) ==
    /\ HasCurrentLayer /\ path.data # NoPath
    /\ segments >= 2
    /\ edits < MaxEdits
    /\ edits' = edits + 1
    /\ ApplyTime([layers EXCEPT ![CurrentLayerIndex].keyframes =
                     [@ EXCEPT !.x = PathTrack(path.data.pts, segments, "x"),
                               !.y = PathTrack(path.data.pts, segments, "y")]], currentTime)
    /\ persist(FALSE)
    /\ lastOp' = Op("applyPath", TRUE, TRUE, 0)
    /\ UNCHANGED <<playVars, hostVars>>
    /\ UNCHANGED probe
    /\ UNCHANGED <<projVars, toolVars, selectedId, dragKeyframe, widgetKeyframes, pending, loads>>

(***************************************************************************)
(* The numeric inputs of the selected layer.                               *)
(***************************************************************************)

\* timeline.js:544-572: a foreground input (any property) is given the
\* number v (NaN: the text of the input is no number).
SetProp(prop, v) ==
    /\ HasCurrentLayer /\ CurrentLayer.type # "background"
    /\ IF IsNum(v)
       THEN /\ layers' = [layers EXCEPT ![CurrentLayerIndex][prop] = v]
            /\ render
            /\ persist(FALSE)
            /\ lastOp' = Op("input", FALSE, TRUE, 0)
       ELSE /\ lastOp' = Op("input", FALSE, FALSE, 0)
            /\ UNCHANGED <<layers, renderPending, redraws, persistTimer, timeouts>>
    /\ UNCHANGED <<playVars, hostVars>>
    /\ UNCHANGED probe
    /\ UNCHANGED <<projVars, toolVars, currentTime, selectedId, dragKeyframe,
                   widgetKeyframes, pending, loads, edits>>

\* timeline.js:287-293: the properties the background row has an input for.
BgInputProps == {"x", "y", "scale_x", "scale_y", "rotation", "flip_h", "flip_v"}

\* timeline.js:611-621: a background input is given the number v (NaN: the
\* text of the input is no number).
SetBgProp(prop, v) ==
    /\ HasCurrentLayer /\ CurrentLayer.type = "background"
    /\ prop \in BgInputProps
    /\ IF IsNum(v)
       THEN /\ layers' = [layers EXCEPT ![CurrentLayerIndex][prop] = v]
            /\ render
            /\ persist(FALSE)
            /\ lastOp' = Op("bgInput", FALSE, TRUE, 0)
       ELSE /\ lastOp' = Op("bgInput", FALSE, FALSE, 0)
            /\ UNCHANGED <<layers, renderPending, redraws, persistTimer, timeouts>>
    /\ UNCHANGED <<playVars, hostVars>>
    /\ UNCHANGED probe
    /\ UNCHANGED <<projVars, toolVars, currentTime, selectedId, dragKeyframe,
                   widgetKeyframes, pending, loads, edits>>

(***************************************************************************)
(* SpecKeyframes: the keyframe store and its evaluation.  The editor is    *)
(* constructed on a node whose keyframes widget holds a foreground layer,  *)
(* which load() selects, and above it a background with keyframes; the     *)
(* user scrubs, edits x, adds, deletes, clears and drags keyframes and     *)
(* generates them from the path.                                           *)
(***************************************************************************)

\* Pointer positions on the timeline: at the default duration of 5 s they
\* are the times 1 s, 1.0025 s and 3 s.
KfPointerXs == {800, 802, 2400}

KfInputs == {<<"x", 100 * One>>}

KfSegments == {2}

\* The background of the widget moves from x = -100 at 0 s to x = 100 at
\* 2 s.
KfExample == [EmptyKeyframes EXCEPT !.x = <<Kf(0, (0 - 100) * One), Kf(2 * TicksPerSecond, 100 * One)>>]

KfWidget ==
    Widget(TRUE, TRUE,
           <<Descriptor(Id("layer", 0), "foreground", NoRaster),
             [Descriptor(BackgroundId, "background", NoRaster) EXCEPT !.keyframes = KfExample]>>)

InitKeyframes == InitFrom(constructed(NaN, NaN, KfWidget), KfWidget)

NextKeyframes ==
    \/ \E fx \in KfPointerXs, onRow \in BOOLEAN : TimelineDown(fx, onRow)
    \/ \E fx \in KfPointerXs : TimelineMove(fx)
    \/ TimelineUp
    \/ AddKeyframe
    \/ DeleteKeyframe
    \/ ClearKeyframes
    \/ TogglePathMode
    \/ \E n \in KfSegments : ApplyPathToKeyframes(n)
    \/ \E in \in KfInputs : SetProp(in[1], in[2])

SpecKeyframes == InitKeyframes /\ [][NextKeyframes]_vars

(***************************************************************************)
(* Properties of the keyframe store and of the evaluation.                 *)
(***************************************************************************)

\* The program's own state: every variable but the bookkeeping of the
\* bounds and of the last operation.
programVars ==
    <<projVars, toolVars, currentTime, layers, selectedId, dragKeyframe,
      renderPending, redraws, persistTimer, timeouts, widgetKeyframes, pending>>

Samples(track) == {track[j] : j \in 1..Len(track)}

\* How many times the sample s occurs in the track.
Count(track, s) == Cardinality({j \in 1..Len(track) : track[j] = s})

\* The positions of the samples whose time, rounded to two decimals, is
\* that of t.
AtTime(track, t) == {j \in 1..Len(track) : ToFixed2(track[j].time) = ToFixed2(t)}

Ascending(track) == \A j \in 1..(Len(track) - 1) : track[j].time <= track[j + 1].time

StrictlyAscending(track) == \A j \in 1..(Len(track) - 1) : track[j].time < track[j + 1].time

\* C1: in every reachable state every keyframe track of every layer is
\* strictly ascending in time, with no two samples at the same time.
C1_TracksStrictlyAscending ==
    \A i \in 1..Len(layers) : \A q \in Props : StrictlyAscending(layers[i].keyframes[q])

\* C2: Add keyframe on the selected layer at the current time t leaves, in
\* each of the nine tracks, exactly one sample whose rounded time is that of
\* t; its value is the layer's current value of the property; the samples at
\* other rounded times are kept, each as often as before; and the track is
\* sorted ascending by time.
C2_AddKeyframeSetsOneSample ==
    [][AddKeyframe =>
         LET i == CurrentLayerIndex
             t == currentTime
         IN \A q \in Props :
              LET old == layers[i].keyframes[q]
                  new == layers'[i].keyframes[q]
              IN /\ Cardinality(AtTime(new, t)) = 1
                 /\ \A j \in AtTime(new, t) : new[j].value = layers[i][q]
                 /\ \A s \in Samples(old) \cup Samples(new) :
                        ToFixed2(s.time) # ToFixed2(t) => Count(new, s) = Count(old, s)
                 /\ Ascending(new)]_vars

\* Add keyframe has replaced a sample that printed as the current time does
\* and was at another time.
C2_Witness ==
    /\ lastOp.name = "addKeyframe" /\ lastOp.removed > 0
    /\ \E i \in 1..Len(layers) :
         /\ layers[i].id = selectedId
         /\ Len(layers[i].keyframes.x) >= 2
         /\ ToFixed2(currentTime) * TicksPerCenti # currentTime

\* C3: Delete keyframe at the current time t removes from every track of the
\* selected layer exactly the samples whose rounded time is that of t and
\* keeps the others in their order; the tracks of every other layer are
\* unchanged; when no sample matches, nothing of the state changes and no
\* persistence is requested.
C3_DeleteKeyframeRemovesMatches ==
    [][DeleteKeyframe =>
         LET i == CurrentLayerIndex
             t == currentTime
             matches == \E q \in Props : AtTime(layers[i].keyframes[q], t) # {}
         IN /\ \A q \in Props :
                 LET old == layers[i].keyframes[q]
                     new == layers'[i].keyframes[q]
                     Other(kf) == ToFixed2(kf.time) # ToFixed2(t)
                 IN /\ AtTime(new, t) = {}
                    /\ new = SelectSeq(old, Other)
            /\ \A j \in 1..Len(layers) :
                 j # i => /\ Len(layers') = Len(layers)
                          /\ layers'[j].keyframes = layers[j].keyframes
            /\ ~matches => /\ UNCHANGED programVars
                           /\ ~lastOp'.persisted]_vars

\* Delete keyframe has removed samples from the selected layer while another
\* layer has keyframes.
C3_Witness ==
    /\ lastOp.name = "deleteKeyframe" /\ lastOp.removed > 0
    /\ \E i \in 1..Len(layers) : layers[i].id # selectedId /\ layers[i].keyframes.x # <<>>

\* C4: after a time t is applied, every property of every layer, background
\* included, whose track is not empty has the first sample's value when t is
\* at or before the first sample's time and the last sample's value when t
\* is at or after the last sample's time.
C4_FlatOutsideTheTrack ==
    lastOp.applied =>
      \A i \in 1..Len(layers) : \A q \in Props :
         LET track == layers[i].keyframes[q]
         IN track # <<>> =>
              /\ currentTime <= track[1].time => layers[i][q] = track[1].value
              /\ currentTime >= track[Len(track)].time => layers[i][q] = track[Len(track)].value

\* The value v is a.value + (b.value - a.value) * (t - a.time) / (b.time -
\* a.time) to within one unit of the fixed-point representation.
IsLerp(v, a, b, t) ==
    LET den == b.time - a.time
        exact == a.value * den + (b.value - a.value) * (t - a.time)
    IN Abs(v * den - exact) < den

\* C5: after a time t strictly between two adjacent samples a and b of a
\* track is applied, the property is a.value + (b.value - a.value) *
\* (t - a.time) / (b.time - a.time); with the x keyframes 0 s -> -100 and
\* 2 s -> 100 on the default project, the time 1 s gives x = 0 and the time
\* 3 s gives x = 100.
C5_LinearBetweenSamples ==
    lastOp.applied =>
      \A i \in 1..Len(layers) :
         /\ \A q \in Props :
              LET track == layers[i].keyframes[q]
              IN \A j \in 1..(Len(track) - 1) :
                   (track[j].time < currentTime /\ currentTime < track[j + 1].time)
                      => IsLerp(layers[i][q], track[j], track[j + 1], currentTime)
         /\ (layers[i].keyframes.x = KfExample.x /\ fps = 16 /\ totalFrames = 81) =>
              /\ currentTime = TicksPerSecond => layers[i].x = 0
              /\ currentTime = 3 * TicksPerSecond => layers[i].x = 100 * One

\* A time strictly between two samples of different values has been
\* applied, and the property has a value of its own.
C5_Witness ==
    /\ lastOp.applied
    /\ \E i \in 1..Len(layers) : \E j \in 1..(Len(layers[i].keyframes.x) - 1) :
         LET a == layers[i].keyframes.x[j]
             b == layers[i].keyframes.x[j + 1]
         IN /\ a.time < currentTime /\ currentTime < b.time
            /\ layers[i].x # a.value /\ layers[i].x # b.value

(***************************************************************************)
(* The project settings.                                                   *)
(***************************************************************************)

\* timeline.js:1074-1111 #setTimelineMetrics(f, n) on the project cur: the
\* frame rate, the frame count and the duration after it, and whether it
\* persists.
setTimelineMetrics(f, n, cur) ==
    LET nextFps == coerceIntIn(f, cur.fps, MinFps, MaxFps)
        nextFrames == coerceIntIn(n, cur.totalFrames, MinFrames, MaxFrames)
    IN [fps |-> nextFps, totalFrames |-> nextFrames,
        duration |-> DurationOf(nextFrames, nextFps),
        changed |-> nextFps # cur.fps \/ nextFrames # cur.totalFrames]

\* timeline.js:525-532 applyProjectSettings: the Apply button, or Enter in
\* one of the four fields, which hold the integers w, h, f and n (NaN: the
\* text of the field is no number).
ApplySettings(w, h, f, n) ==
    LET res == setResolution(coerceIntIn(w, width, MinSize, MaxSize),
                             coerceIntIn(h, height, MinSize, MaxSize), Resolution)
        met == setTimelineMetrics(coerceIntIn(f, fps, MinFps, MaxFps),
                                  coerceIntIn(n, totalFrames, MinFrames, MaxFrames),
                                  [fps |-> fps, totalFrames |-> totalFrames])
    IN /\ width' = res.width /\ height' = res.height /\ canvas' = res.canvas
       /\ fps' = met.fps /\ totalFrames' = met.totalFrames /\ duration' = met.duration
       /\ IF met.changed THEN persist(FALSE) ELSE UNCHANGED <<persistTimer, timeouts>>
       /\ lastOp' = Op("applySettings", FALSE, met.changed, 0)
       /\ UNCHANGED <<playVars, hostVars>>
       /\ UNCHANGED probe
       /\ UNCHANGED <<toolVars, currentTime, layers, selectedId, dragKeyframe, renderPending, redraws,
                      widgetKeyframes, pending, loads, edits>>

(***************************************************************************)
(* SpecProject: the project settings.  The editor is constructed on a node *)
(* whose width and height widgets hold any integer or none and whose       *)
(* keyframes widget is absent, unreadable or holds a layer; the user       *)
(* applies settings and the host loads animations.                         *)
(***************************************************************************)

\* What the width and height widgets of the node may hold.
PjWidgetSizes == {NaN, 10, 720, 10000}

\* The keyframes widget: absent, holding text that is no JSON, holding
\* text that is no JSON array although a layer is written in it, and
\* holding one foreground layer.
PjWidgets ==
    {Widget(FALSE, FALSE, <<>>), Widget(TRUE, FALSE, <<>>),
     Widget(TRUE, FALSE, <<Descriptor(Id("layer", 0), "foreground", NoRaster)>>),
     Widget(TRUE, TRUE, <<Descriptor(Id("layer", 0), "foreground", NoRaster)>>)}

\* What the four fields may hold when the settings are applied.
PjWidths == {NaN, 10, 800}

PjHeights == {NaN, 10000}

PjRates == {NaN, 0, 24, 500}

PjFrames == {NaN, 0, 48}

\* Project descriptors the host may load: one with no field, one with the
\* four fields of a saved project, one with a duration as well, and one
\* whose numbers are out of range.
PjProjects ==
    {Project(0, 0, 0, 0, 0),
     Project(0, 24, 48, 800, 600),
     Project(2 * TicksPerSecond, 24, 48, 0, 0),
     Project(0, 1000, 0 - 3, 10, 10000)}

InitProject ==
    \E ww \in PjWidgetSizes, wh \in PjWidgetSizes, w \in PjWidgets :
        InitFrom(constructed(ww, wh, w), w)

NextProject ==
    \/ \E w \in PjWidths, h \in PjHeights, f \in PjRates, n \in PjFrames : ApplySettings(w, h, f, n)
    \/ \E p \in PjProjects : Load(Animation(p, <<>>))
    \/ PersistFire

SpecProject == InitProject /\ [][NextProject]_vars

\* C6: in every reachable state, the initial one and the one after load()
\* included, the duration is the frame count divided by the frame rate.
C6_DurationIsFramesOverFps ==
    /\ fps > 0
    /\ duration * fps <= totalFrames * TicksPerSecond
    /\ totalFrames * TicksPerSecond < (duration + 1) * fps

\* C7: in every reachable state the width and the height are between 64 and
\* 8192, the frame rate is between 1 and 120 and there is at least one
\* frame.
C7_ProjectWithinBounds ==
    /\ 64 <= width /\ width <= 8192
    /\ 64 <= height /\ height <= 8192
    /\ 1 <= fps /\ fps <= 120
    /\ totalFrames >= 1

(***************************************************************************)
(* The preview canvas: strokes, path points, layer drag, wheel.            *)
(***************************************************************************)

\* The position in state.layers of the first layer of type background, or 0
\* (timeline.js:2010, 1776: layers.find(l => l.type === "background")).
BackgroundIndex ==
    IF \E i \in 1..Len(layers) : layers[i].type = "background"
    THEN SetMin({i \in 1..Len(layers) : layers[i].type = "background"})
    ELSE 0

\* Whether extraction strokes have a raster to land on (timeline.js:2011).
HasBackgroundRaster == BackgroundIndex # 0 /\ layers[BackgroundIndex].img # NoRaster

\* timeline.js:2037: Math.hypot(p.x - pos.x, p.y - pos.y) < 10.
Near(p, pos) ==
    /\ Abs(p.x - pos.x) < 10 * One /\ Abs(p.y - pos.y) < 10 * One
    /\ (p.x - pos.x) * (p.x - pos.x) + (p.y - pos.y) * (p.y - pos.y) < (10 * One) * (10 * One)

\* timeline.js:2007-2054 #onCanvasDown at the canvas position pos, with the
\* right button or shift (erase) or without.
CanvasDown(pos, erase) ==
    LET i == CurrentLayerIndex
        hits == IF path.enabled /\ path.data # NoPath
                THEN {k \in 1..Len(path.data.pts) : Near(path.data.pts[k], pos)} ELSE {}
    IN /\ IF extract.enabled
          THEN /\ extract' = IF HasBackgroundRaster
                             THEN [extract EXCEPT !.drawing = TRUE, !.erasing = erase] ELSE extract
               /\ UNCHANGED <<mask, path, drag>>
          ELSE IF mask.enabled
          THEN /\ mask' = IF i # 0 /\ layers[i].img # NoRaster
                          THEN [mask EXCEPT !.drawing = TRUE, !.erase = erase] ELSE mask
               /\ UNCHANGED <<extract, path, drag>>
          ELSE IF hits # {}
          THEN /\ path' = [path EXCEPT !.dragging = SetMin(hits)]
               /\ UNCHANGED <<extract, mask, drag>>
          ELSE /\ drag' = IF i # 0
                          THEN [active |-> TRUE,
                                x |-> pos.x - (canvas.w * One) \div 2 - layers[i].x,
                                y |-> pos.y - (canvas.h * One) \div 2 - layers[i].y]
                          ELSE drag
               /\ UNCHANGED <<extract, mask, path>>
       /\ lastOp' = Op("canvasDown", FALSE, FALSE, 0)
       /\ UNCHANGED <<playVars, hostVars>>
       /\ UNCHANGED probe
       /\ UNCHANGED <<projVars, currentTime, layers, selectedId, dragKeyframe, renderPending, redraws,
                      persistTimer, timeouts, widgetKeyframes, pending, loads, edits>>

\* timeline.js:2056-2119 #onCanvasMove to the canvas position pos.  Whether
\* a stroke reaches a pixel of the extract canvas depends on where the
\* position maps to: a paint stroke may select a pixel, an erase stroke may
\* unselect the last one.
CanvasMove(pos) ==
    LET i == CurrentLayerIndex
    IN /\ IF extract.drawing /\ extract.enabled
          THEN /\ IF HasBackgroundRaster
                  THEN /\ \E v \in {extract.painted, ~extract.erasing} :
                              extract' = [extract EXCEPT !.painted = v]
                       /\ render
                  ELSE UNCHANGED <<extract, renderPending, redraws>>
               /\ UNCHANGED <<mask, path, layers>>
          ELSE IF mask.drawing /\ mask.enabled
          THEN /\ IF i # 0 /\ layers[i].img # NoRaster
                  THEN /\ mask' = [mask EXCEPT !.canvas = "edited"]
                       /\ render
                  ELSE UNCHANGED <<mask, renderPending, redraws>>
               /\ UNCHANGED <<extract, path, layers>>
          ELSE IF path.enabled /\ path.dragging # 0 /\ path.data # NoPath
          THEN /\ LET moved == IF path.dragging <= Len(path.data.pts)
                               THEN [path.data EXCEPT !.pts[path.dragging] = pos] ELSE path.data
                  IN /\ path' = [path EXCEPT !.data = moved]
                     /\ layers' = [j \in 1..Len(layers) |->
                                      IF layers[j].bezierPath.pid = path.data.pid
                                      THEN [layers[j] EXCEPT !.bezierPath = moved] ELSE layers[j]]
               /\ render
               /\ UNCHANGED <<extract, mask>>
          ELSE /\ IF drag.active /\ i # 0
                  THEN /\ layers' = [layers EXCEPT
                                       ![i].x = pos.x - (canvas.w * One) \div 2 - drag.x,
                                       ![i].y = pos.y - (canvas.h * One) \div 2 - drag.y]
                       /\ render
                  ELSE UNCHANGED <<layers, renderPending, redraws>>
               /\ UNCHANGED <<extract, mask, path>>
       /\ lastOp' = Op("canvasMove", FALSE, FALSE, 0)
       /\ UNCHANGED <<playVars, hostVars>>
       /\ UNCHANGED probe
       /\ UNCHANGED <<projVars, currentTime, selectedId, dragKeyframe, drag,
                      persistTimer, timeouts, widgetKeyframes, pending, loads, edits>>

\* timeline.js:2121-2144 #onCanvasUp.
CanvasUp ==
    LET i == CurrentLayerIndex
        masked == mask.drawing /\ i # 0
        pathed == path.dragging # 0 /\ path.data # NoPath
        persisted == masked \/ pathed \/ drag.active
    IN /\ extract' = [extract EXCEPT !.drawing = FALSE]
       /\ mask' = IF masked THEN [mask EXCEPT !.drawing = FALSE] ELSE mask
       /\ path' = IF pathed THEN [path EXCEPT !.dragging = 0] ELSE path
       /\ layers' = IF i = 0 THEN layers
                    ELSE [layers EXCEPT
                            ![i].customMask = IF masked THEN mask.canvas ELSE @,
                            ![i].bezierPath = IF pathed THEN path.data ELSE @]
       /\ drag' = [drag EXCEPT !.active = FALSE]
       /\ IF extract.drawing THEN render ELSE UNCHANGED <<renderPending, redraws>>
       /\ IF persisted THEN persist(FALSE) ELSE UNCHANGED <<persistTimer, timeouts>>
       /\ lastOp' = Op("canvasUp", FALSE, persisted, 0)
       /\ UNCHANGED <<playVars, hostVars>>
       /\ UNCHANGED probe
       /\ UNCHANGED <<projVars, currentTime, selectedId, dragKeyframe,
                      widgetKeyframes, pending, loads, edits>>

MinScale == 1

MaxScale == 5 * One

\* timeline.js:2157-2158: the scale after one wheel step, up (factor 1.1) or
\* down (factor 0.9).
WheelScale(scale, up) ==
    Max(MinScale, Min(MaxScale, (Or(scale, One) * (IF up THEN 11 ELSE 9)) \div 10))

\* timeline.js:2146-2163 #onCanvasWheel.
CanvasWheel(up) ==
    LET i == CurrentLayerIndex
    IN /\ IF mask.enabled
          THEN /\ mask' = [mask EXCEPT !.brush = Max(5, Min(100, @ + (IF up THEN 2 ELSE 0 - 2)))]
               /\ lastOp' = Op("wheel", FALSE, FALSE, 0)
               /\ UNCHANGED <<playVars, hostVars>>
               /\ UNCHANGED probe
               /\ UNCHANGED <<layers, renderPending, redraws, persistTimer, timeouts, edits>>
          ELSE IF i = 0
          THEN /\ lastOp' = Op("wheel", FALSE, FALSE, 0)
               /\ UNCHANGED probe
               /\ UNCHANGED <<mask, layers, renderPending, redraws, persistTimer, timeouts, edits>>
          ELSE /\ edits < MaxEdits
               /\ edits' = edits + 1
               /\ layers' = [layers EXCEPT ![i].scale_x = WheelScale(@, up),
                                           ![i].scale_y = WheelScale(@, up)]
               /\ render
               /\ persist(FALSE)
               /\ lastOp' = Op("wheel", FALSE, TRUE, 0)
               /\ UNCHANGED <<playVars, hostVars>>
               /\ UNCHANGED probe
               /\ UNCHANGED mask
       /\ UNCHANGED <<projVars, path, extract, drag, currentTime, selectedId, dragKeyframe,
                      widgetKeyframes, pending, loads>>

(***************************************************************************)
(* The layer registry: reordering, imports, extraction.                    *)
(***************************************************************************)

\* The sequence s with its elements at i and j exchanged.
Swap(s, i, j) == [s EXCEPT ![i] = s[j], ![j] = s[i]]

\* The sequence s without its element at i.
RemoveAt(s, i) == SubSeq(s, 1, i - 1) \o SubSeq(s, i + 1, Len(s))

\* What the three reorder handlers do besides moving the layer:
\* #updateLayerSelect (empty), #render, #persist.
Reordered(ls, name) ==
    /\ layers' = ls
    /\ render
    /\ persist(FALSE)
    /\ lastOp' = Op(name, FALSE, TRUE, 0)
    /\ UNCHANGED <<playVars, hostVars>>
    /\ UNCHANGED probe
    /\ UNCHANGED <<projVars, toolVars, currentTime, selectedId, dragKeyframe,
                   widgetKeyframes, pending, loads, edits>>

\* timeline.js:1455-1468 #moveLayer(direction): the Up button passes -1, the
\* Down button +1.
MoveLayer(direction) ==
    LET idx == CurrentLayerIndex
        newIdx == idx + direction
    IN /\ idx # 0
       /\ newIdx >= 1 /\ newIdx <= Len(layers)
       /\ Reordered(Swap(layers, idx, newIdx), "moveLayer")

\* timeline.js:1470-1480 #moveLayerToTop.
MoveLayerToTop ==
    LET idx == CurrentLayerIndex
    IN /\ idx # 0 /\ idx # Len(layers)
       /\ Reordered(Append(RemoveAt(layers, idx), layers[idx]), "moveLayerToTop")

\* timeline.js:1482-1492 #moveLayerToBottom.
MoveLayerToBottom ==
    LET idx == CurrentLayerIndex
    IN /\ idx # 0 /\ idx # 1
       /\ Reordered(<<layers[idx]>> \o RemoveAt(layers, idx), "moveLayerToBottom")

\* The extractions whose decodes have not both completed.
ExtractJobs == {p \in pending : p.kind = "extract"}

\* The numbers of the uploads in the registry.
UploadNumbers == {layers[i].id.n : i \in {j \in 1..Len(layers) : layers[j].id.pre = "uploaded"}}

\* timeline.js:1128: an id made of the clock and a random number, taken to
\* differ from the ids in the registry.
FreshUploadId == Id("uploaded", SetMin({n \in 0..Len(layers) : n \notin UploadNumbers}))

\* timeline.js:1118-1166 #handleImageFiles, for one file: the step after
\* the file has been read, decoded and fitted into the raster `raster`.  A
\* file that cannot be read or decoded changes no state.
ImportImage(raster) ==
    /\ Len(layers) + Cardinality(ExtractJobs) < MaxLayers
    /\ layers' = Append(layers, Layer(FreshOid({}), FreshUploadId, "foreground", raster, raster, One, One))
    /\ selectedId' = FreshUploadId
    /\ render
    /\ persist(TRUE)
    /\ lastOp' = Op("importImage", FALSE, TRUE, 0)
    /\ UNCHANGED <<playVars, hostVars>>
    /\ UNCHANGED probe
    /\ UNCHANGED <<projVars, toolVars, currentTime, dragKeyframe, widgetKeyframes, pending, loads, edits>>

\* timeline.js:1168-1210 #handleBackgroundFile: the step after the file has
\* been read, decoded and fitted into the raster `raster`.
ImportBackground(raster) ==
    LET at == FindIndex(layers, LAMBDA l : l.id = BackgroundId)
        ls == IF at = 0
              THEN <<Layer(FreshOid({}), BackgroundId, "background", raster, raster,
                           Undefined, Undefined)>> \o layers
              ELSE [layers EXCEPT ![at].image_data = raster, ![at].img = raster]
    IN /\ at = 0 => Len(layers) + Cardinality(ExtractJobs) < MaxLayers
       /\ layers' = ls
       /\ selectedId' = syncLayerSelect(ls, selectedId)
       /\ render
       /\ persist(TRUE)
       /\ lastOp' = Op("importBackground", FALSE, TRUE, 0)
       /\ UNCHANGED <<playVars, hostVars>>
       /\ UNCHANGED probe
       /\ UNCHANGED <<projVars, toolVars, currentTime, dragKeyframe, widgetKeyframes,
                      pending, loads, edits>>

\* timeline.js:1732-1773 #toggleExtractMode.
ToggleExtractMode ==
    /\ IF ~extract.enabled
       THEN /\ mask' = [mask EXCEPT !.enabled = FALSE]
            /\ path' = [path EXCEPT !.enabled = FALSE]
            /\ IF HasBackgroundRaster
               THEN /\ extract' = [extract EXCEPT !.enabled = TRUE, !.erasing = FALSE,
                                                  !.painted = FALSE]
                    /\ render
               ELSE UNCHANGED <<extract, renderPending, redraws>>
       ELSE /\ extract' = [extract EXCEPT !.enabled = FALSE]
            /\ render
            /\ UNCHANGED <<mask, path>>
    /\ lastOp' = Op("toggleExtract", FALSE, FALSE, 0)
    /\ UNCHANGED <<playVars, hostVars>>
    /\ UNCHANGED probe
    /\ UNCHANGED <<projVars, drag, currentTime, layers, selectedId, dragKeyframe, persistTimer, timeouts,
                   widgetKeyframes, pending, loads, edits>>

\* The numbers of the extractions whose rasters are in the registry or
\* being decoded.
ExtractNumbers ==
    {p.job : p \in ExtractJobs}
        \cup {layers[i].image_data.n :
                i \in {j \in 1..Len(layers) : layers[j].image_data.src \in {"filled", "extracted"}}}
        \cup {layers[i].img.n :
                i \in {j \in 1..Len(layers) : layers[j].img.src \in {"filled", "extracted"}}}

\* timeline.js:1872: the layers whose id starts with "extracted_".
extractedCount == Cardinality({i \in 1..Len(layers) : layers[i].id.pre = "extracted"})

\* One extraction between #applyExtraction and its checkComplete: the
\* background layer object, the raster its newBgImg decodes, the new layer
\* object, and which of the two images have loaded.
ExtractJob(job, target, data, newLayer) ==
    [kind |-> "extract", job |-> job, target |-> target, data |-> data,
     newLayer |-> newLayer, bgLoaded |-> FALSE, fgLoaded |-> FALSE]

\* #applyExtraction without its test for a selection (timeline.js:1783-1787).
ApplyExtractionUnchecked ==
    LET bg == BackgroundIndex
        k == SetMin({n \in 1..(Cardinality(ExtractNumbers) + 1) : n \notin ExtractNumbers})
        newLayer == Layer(FreshOid({}), Id("extracted", extractedCount), "foreground",
                          Raster("extracted", k), NoRaster, One, One)
    IN /\ IF HasBackgroundRaster
          THEN /\ Len(layers) + Cardinality(ExtractJobs) < MaxLayers
               /\ layers' = [layers EXCEPT ![bg].image_data = Raster("filled", k)]
               /\ pending' = pending \cup
                               {ExtractJob(k, layers[bg].oid, Raster("filled", k), newLayer)}
          ELSE UNCHANGED <<layers, pending>>
       /\ lastOp' = Op("applyExtraction", FALSE, FALSE, 0)
       /\ UNCHANGED <<playVars, hostVars>>
       /\ UNCHANGED probe
       /\ UNCHANGED <<projVars, toolVars, currentTime, selectedId, dragKeyframe, renderPending, redraws,
                      persistTimer, timeouts, widgetKeyframes, loads, edits>>

\* timeline.js:1775-1939 #applyExtraction, up to the start of the two
\* decodes.
ApplyExtraction ==
    LET bg == BackgroundIndex
        k == SetMin({n \in 1..(Cardinality(ExtractNumbers) + 1) : n \notin ExtractNumbers})
        newLayer == Layer(FreshOid({}), Id("extracted", extractedCount), "foreground",
                          Raster("extracted", k), NoRaster, One, One)
    IN /\ IF HasBackgroundRaster /\ extract.painted
          THEN /\ Len(layers) + Cardinality(ExtractJobs) < MaxLayers
               /\ layers' = [layers EXCEPT ![bg].image_data = Raster("filled", k)]
               /\ pending' = pending \cup
                               {ExtractJob(k, layers[bg].oid, Raster("filled", k), newLayer)}
          ELSE UNCHANGED <<layers, pending>>
       /\ lastOp' = Op("applyExtraction", FALSE, FALSE, 0)
       /\ UNCHANGED <<playVars, hostVars>>
       /\ UNCHANGED probe
       /\ UNCHANGED <<projVars, toolVars, currentTime, selectedId, dragKeyframe, renderPending, redraws,
                      persistTimer, timeouts, widgetKeyframes, loads, edits>>

\* timeline.js:1900-1924 checkComplete of the extraction p, which has just
\* become q; ls are the layers after the callback that calls it.
checkComplete(p, q, ls) ==
    IF q.bgLoaded /\ q.fgLoaded
    THEN /\ layers' = Append(ls, q.newLayer)
         /\ selectedId' = q.newLayer.id
         /\ extract' = [extract EXCEPT !.enabled = FALSE, !.drawing = FALSE]
         /\ render
         /\ persist(TRUE)
         /\ pending' = pending \ {p}
         /\ lastOp' = Op("extracted", FALSE, TRUE, 0)
         /\ UNCHANGED <<playVars, hostVars>>
         /\ UNCHANGED probe
    ELSE /\ layers' = ls
         /\ pending' = (pending \ {p}) \cup {q}
         /\ lastOp' = Op("extractDecoded", FALSE, FALSE, 0)
         /\ UNCHANGED <<playVars, hostVars>>
         /\ UNCHANGED probe
         /\ UNCHANGED <<selectedId, extract, renderPending, redraws, persistTimer, timeouts>>

\* newBgImg.onload storing the decoded image in every layer rather than in
\* the layer object it captured.
ExtractBgDecodedAll(p) ==
    /\ p \in ExtractJobs /\ ~p.bgLoaded
    /\ checkComplete(p, [p EXCEPT !.bgLoaded = TRUE],
                     [i \in 1..Len(layers) |->
                        [layers[i] EXCEPT !.img = p.data]])
    /\ UNCHANGED <<projVars, mask, path, drag, currentTime, dragKeyframe, widgetKeyframes,
                   loads, edits>>

\* timeline.js:1926-1930 newBgImg.onload of the extraction p.
ExtractBgDecoded(p) ==
    /\ p \in ExtractJobs /\ ~p.bgLoaded
    /\ checkComplete(p, [p EXCEPT !.bgLoaded = TRUE],
                     [i \in 1..Len(layers) |->
                        IF layers[i].oid = p.target THEN [layers[i] EXCEPT !.img = p.data]
                        ELSE layers[i]])
    /\ UNCHANGED <<projVars, mask, path, drag, currentTime, dragKeyframe, widgetKeyframes,
                   loads, edits>>

\* timeline.js:1931-1935 fgImg.onload of the extraction p.
ExtractFgDecoded(p) ==
    /\ p \in ExtractJobs /\ ~p.fgLoaded
    /\ checkComplete(p, [p EXCEPT !.fgLoaded = TRUE,
                                  !.newLayer.img = p.newLayer.image_data], layers)
    /\ UNCHANGED <<projVars, mask, path, drag, currentTime, dragKeyframe, widgetKeyframes,
                   loads, edits>>

(***************************************************************************)
(* SpecScale: the scale of a layer.  The editor is constructed on a node   *)
(* whose keyframes widget holds a foreground layer and a background; the   *)
(* user selects either, turns the wheel over the canvas, types into the    *)
(* scale inputs, adds keyframes and scrubs, and the host loads payloads    *)
(* whose layer descriptor gives a scale.                                   *)
(***************************************************************************)

\* The number typed into a scale input.
ScInputs == {0}

\* The times the Go button is used with: 0 s and 2 s.
ScTimes == {0, 2 * TicksPerSecond}

ScWidget ==
    Widget(TRUE, TRUE,
           <<Descriptor(Id("layer", 0), "foreground", NoRaster),
             Descriptor(BackgroundId, "background", NoRaster)>>)

\* The layer descriptors the host loads: no scale, the legacy scale field,
\* a zero scale_x, a negative scale_y.
ScDescriptors ==
    LET d == Descriptor(Id("layer", 0), "foreground", NoRaster)
    IN {d, [d EXCEPT !.scale = 2 * One], [d EXCEPT !.scale_x = 0],
        [d EXCEPT !.scale_y = 0 - One]}

InitScale == InitFrom(constructed(NaN, NaN, ScWidget), ScWidget)

NextScale ==
    \/ \E up \in BOOLEAN : CanvasWheel(up)
    \/ \E v \in ScInputs : SetProp("scale_x", v)
    \/ \E v \in ScInputs : SetBgProp("scale_y", v)
    \/ \E id \in {BackgroundId, Id("layer", 0)} : SelectLayer(id)
    \/ AddKeyframe
    \/ \E t \in ScTimes : Go(t)
    \/ \E d \in ScDescriptors : Load(Animation(Project(0, 0, 0, 0, 0), <<d>>))

SpecScale == InitScale /\ [][NextScale]_vars

\* C8: in every reachable state every layer's scale_x and scale_y are at
\* least the minimum 0.01, after any sequence of wheel zoom, numeric scale
\* input on foreground or background, keyframe evaluation and load of a
\* layer descriptor.
C8_ScalesStayPositive ==
    \A i \in 1..Len(layers) : layers[i].scale_x >= MinScale /\ layers[i].scale_y >= MinScale

(***************************************************************************)
(* SpecExtract: region extraction.  The editor is constructed on a node    *)
(* with no keyframes widget; the user imports a background, turns the      *)
(* extract tool on and off, paints and erases a selection and presses      *)
(* Extract Region, and the rasters of an extraction are decoded in either  *)
(* order, while further extractions may be started.                        *)
(***************************************************************************)

\* The raster an imported file is fitted into.
ExRasters == {Raster("file", 1)}

\* The canvas position of the pointer.
ExPositions == {[x |-> 0, y |-> 0]}

ExWidget == Widget(FALSE, FALSE, <<>>)

InitExtract == InitFrom(constructed(NaN, NaN, ExWidget), ExWidget)

NextExtract ==
    \/ \E r \in ExRasters : ImportBackground(r)
    \/ ToggleExtractMode
    \/ \E pos \in ExPositions, erase \in BOOLEAN : CanvasDown(pos, erase)
    \/ \E pos \in ExPositions : CanvasMove(pos)
    \/ CanvasUp
    \/ ApplyExtraction
    \/ \E p \in pending : ExtractBgDecoded(p)
    \/ \E p \in pending : ExtractFgDecoded(p)

SpecExtract == InitExtract /\ [][NextExtract]_vars

\* C9: the ids of the layers in the registry are pairwise distinct in every
\* reachable state, also when Extract Region is invoked a second time
\* before the rasters of the first invocation have been decoded.
C9_LayerIdsDistinct ==
    \A i, j \in 1..Len(layers) : layers[i].id = layers[j].id => i = j

\* C12: Extract Region with no background layer that has a decoded raster,
\* or with no selected pixel on the extract canvas, creates no layer now or
\* later and leaves the registry with its rasters, the selection and the
\* extract mode as they were.
C12_RejectedExtractionChangesNothing ==
    [][(lastOp'.name = "applyExtraction" /\ ~(HasBackgroundRaster /\ extract.painted))
          => /\ layers' = layers
             /\ pending' = pending
             /\ extract' = extract
             /\ selectedId' = selectedId
             /\ persistTimer' = persistTimer]_vars

\* Extract Region has been pressed in extract mode on a decoded background
\* with nothing selected.
C12_Witness ==
    /\ lastOp.name = "applyExtraction"
    /\ HasBackgroundRaster /\ extract.enabled /\ ~extract.painted
    /\ ExtractJobs = {}

(***************************************************************************)
(* SpecLayers: the layer registry.  The editor is constructed on a node    *)
(* whose keyframes widget holds no layer; the user imports a background    *)
(* and images, paints a selection and extracts it and reorders the         *)
(* layers, and the host loads a payload with one background layer.         *)
(***************************************************************************)

\* The raster an imported file is fitted into.
LyRasters == {Raster("file", 1)}

\* The canvas position of the pointer.
LyPositions == {[x |-> 0, y |-> 0]}

\* The payloads the host loads: one background layer whose id is not
\* "background".
LyAnimations ==
    {Animation(Project(0, 0, 0, 0, 0), <<Descriptor(Id("layer", 0), "background", NoRaster)>>)}

LyWidget == Widget(TRUE, TRUE, <<>>)

InitLayers == InitFrom(constructed(NaN, NaN, LyWidget), LyWidget)

NextLayers ==
    \/ \E r \in LyRasters : ImportImage(r)
    \/ \E r \in LyRasters : ImportBackground(r)
    \/ ToggleExtractMode
    \/ \E pos \in LyPositions : CanvasDown(pos, FALSE)
    \/ \E pos \in LyPositions : CanvasMove(pos)
    \/ CanvasUp
    \/ ApplyExtraction
    \/ \E p \in pending : ExtractBgDecoded(p)
    \/ \E p \in pending : ExtractFgDecoded(p)
    \/ \E direction \in {0 - 1, 1} : MoveLayer(direction)
    \/ MoveLayerToTop
    \/ MoveLayerToBottom
    \/ \E a \in LyAnimations : Load(a)

SpecLayers == InitLayers /\ [][NextLayers]_vars

\* C10: in every reachable state at most one layer is of type background,
\* after any sequence of background imports, foreground imports,
\* extractions, reorderings and loads of payloads with at most one
\* background layer, whatever the id of that layer.
C10_AtMostOneBackground ==
    Cardinality({i \in 1..Len(layers) : layers[i].type = "background"}) <= 1

\* A step of an extraction: #applyExtraction or one of its two decodes.
ExtractionStep == lastOp'.name \in {"applyExtraction", "extractDecoded", "extracted"}

\* C17: an extraction changes only the stored and the decoded raster of a
\* background layer and, when it completes, appends exactly one new
\* foreground layer: every other field of the background, its position,
\* and every other layer with its position stay as they were.
C17_ExtractionTouchesOnlyBackgroundRaster ==
    [][ExtractionStep =>
          /\ Len(layers') = Len(layers) + (IF lastOp'.name = "extracted" THEN 1 ELSE 0)
          /\ \A i \in 1..Len(layers) :
                /\ [layers'[i] EXCEPT !.image_data = layers[i].image_data,
                                      !.img = layers[i].img] = layers[i]
                /\ layers'[i] # layers[i] => layers[i].type = "background"
          /\ lastOp'.name = "extracted" =>
                LET new == layers'[Len(layers')]
                IN /\ new.type = "foreground" /\ new.id.pre = "extracted"
                   /\ \A i \in 1..Len(layers) : layers[i].oid # new.oid]_vars

\* An extraction has completed in a registry that also holds an upload.
C17_Witness ==
    /\ lastOp.name = "extracted"
    /\ Len(layers) = 3
    /\ layers[3].id.pre = "extracted" /\ layers[3].img.src = "extracted"
    /\ \E i, b \in 1..2 :
          /\ layers[i].id.pre = "uploaded"
          /\ layers[b].type = "background"
          /\ layers[b].image_data.src = "filled" /\ layers[b].img.src = "filled"

\* The ids of the layers of the registry ls.
LayerIds(ls) == {ls[i].id : i \in 1..Len(ls)}

\* C40: the registry is painted from its first layer (the bottom) to its
\* last (the top), and the reorder buttons agree with that order: Move Up
\* takes the selected layer one position toward the top, the end Move to
\* Top puts it at, and Move Down one position toward the bottom, the end
\* Move to Bottom puts it at; each reorder keeps the set of layers and the
\* selection.
C40_MoveUpGoesTowardTop ==
    [][/\ MoveLayer(0 - 1) => CurrentLayerIndex' = CurrentLayerIndex + 1
       /\ MoveLayer(1) => CurrentLayerIndex' = CurrentLayerIndex - 1
       /\ MoveLayerToTop => CurrentLayerIndex' = Len(layers')
       /\ MoveLayerToBottom => CurrentLayerIndex' = 1
       /\ lastOp'.name \in {"moveLayer", "moveLayerToTop", "moveLayerToBottom"} =>
             /\ LayerIds(layers') = LayerIds(layers)
             /\ Len(layers') = Len(layers)
             /\ selectedId' = selectedId]_vars

(***************************************************************************)
(* The mask tool.                                                         *)
(***************************************************************************)

\* The decode of a layer's stored mask started by #toggleMaskMode
\* (timeline.js:1525-1527) for the layer object `target`.
MaskDecode(target, data) == [kind |-> "mask", job |-> 0, target |-> target, data |-> data]

\* timeline.js:1500-1544 #toggleMaskMode.  Setting the width of the mask
\* canvas clears it; it is then filled white, or the stored mask of the
\* layer is drawn on it once decoded.
ToggleMaskMode ==
    LET i == CurrentLayerIndex
        sized == i # 0 /\ layers[i].type # "background" /\ layers[i].img # NoRaster
    IN /\ IF ~mask.enabled
          THEN /\ path' = [path EXCEPT !.enabled = FALSE]
               /\ IF ~sized
                  THEN /\ mask' = [mask EXCEPT !.enabled = TRUE]
                       /\ UNCHANGED pending
                  ELSE IF layers[i].customMask # ""
                  THEN /\ mask' = [mask EXCEPT !.enabled = TRUE, !.canvas = "clear"]
                       /\ pending' = pending \cup {MaskDecode(layers[i].oid, layers[i].customMask)}
                  ELSE /\ mask' = [mask EXCEPT !.enabled = TRUE, !.canvas = "blank"]
                       /\ UNCHANGED pending
          ELSE /\ mask' = [mask EXCEPT !.enabled = FALSE]
               /\ UNCHANGED <<path, pending>>
       /\ render
       /\ lastOp' = Op("toggleMask", FALSE, FALSE, 0)
       /\ UNCHANGED <<playVars, hostVars>>
       /\ UNCHANGED probe
       /\ UNCHANGED <<projVars, extract, drag, currentTime, layers, selectedId, dragKeyframe,
                      persistTimer, timeouts, widgetKeyframes, loads, edits>>

\* timeline.js:1526: the stored mask has been decoded and is drawn over the
\* mask canvas.
MaskDecodeDone(p) ==
    /\ p \in pending /\ p.kind = "mask"
    /\ pending' = pending \ {p}
    /\ mask' = [mask EXCEPT !.canvas = IF @ = "clear" THEN p.data ELSE "edited"]
    /\ lastOp' = Op("maskDecoded", FALSE, FALSE, 0)
    /\ UNCHANGED <<playVars, hostVars>>
    /\ UNCHANGED probe
    /\ UNCHANGED <<projVars, path, extract, drag, currentTime, layers, selectedId, dragKeyframe,
                   renderPending, redraws, persistTimer, timeouts, widgetKeyframes, loads, edits>>

(***************************************************************************)
(* SpecTools: the three tool modes.  The editor is constructed on a node   *)
(* with no keyframes widget; the user imports a background, toggles the    *)
(* mask, path and extract tools, presses the mouse on the canvas and       *)
(* moves it, and extracts.                                                 *)
(***************************************************************************)

\* The raster an imported file is fitted into.
ToRasters == {Raster("file", 1)}

\* The canvas position of the pointer.
ToPositions == {[x |-> 0, y |-> 0]}

ToWidget == Widget(FALSE, FALSE, <<>>)

InitTools == InitFrom(constructed(NaN, NaN, ToWidget), ToWidget)

NextTools ==
    \/ \E r \in ToRasters : ImportBackground(r)
    \/ ToggleMaskMode
    \/ TogglePathMode
    \/ ToggleExtractMode
    \/ \E pos \in ToPositions : CanvasDown(pos, FALSE)
    \/ \E pos \in ToPositions : CanvasMove(pos)
    \/ ApplyExtraction
    \/ \E p \in pending : ExtractBgDecoded(p)
    \/ \E p \in pending : ExtractFgDecoded(p)

SpecTools == InitTools /\ [][NextTools]_vars

\* C11: in every reachable state at most one of the mask, path and extract
\* tools is enabled, after any sequence of Mask, Path and Extract toggles
\* and completed extractions.
C11_OneToolMode ==
    Cardinality({t \in {"mask", "path", "extract"} :
                    \/ t = "mask" /\ mask.enabled
                    \/ t = "path" /\ path.enabled
                    \/ t = "extract" /\ extract.enabled}) <= 1

(***************************************************************************)
(* Pixels.  A raster of w by h pixels is the sequence of its pixels row by *)
(* row, as ImageData.data holds them: pixel (x, y) is element y * w + x + 1.*)
(* A mask is the sequence of the red channel of the mask raster's pixels.  *)
(***************************************************************************)

Pixel(r, g, b, a) == [r |-> r, g |-> g, b |-> b, a |-> a]

\* A pixel of a fresh ImageData: createImageData zero-fills.
Transparent == Pixel(0, 0, 0, 0)

\* timeline.js:1808, part_000:133: above this mask value a pixel is selected.
SelectionThreshold == 128

\* timeline.js:1783: some pixel of the mask is selected.
hasSelection(M) == \E i \in 1..Len(M) : M[i] > SelectionThreshold

\* fgData with the threshold itself counted as selected.
fgDataInclusive(bgData, extractMask) ==
    [i \in 1..Len(bgData) |->
        IF extractMask[i] >= SelectionThreshold
        THEN Pixel(bgData[i].r, bgData[i].g, bgData[i].b, 255)
        ELSE Transparent]

\* timeline.js:1805-1817: the foreground raster fgData of #applyExtraction,
\* from the pixels bgData of the background and the mask extractMask.
fgData(bgData, extractMask) ==
    [i \in 1..Len(bgData) |->
        IF extractMask[i] > SelectionThreshold
        THEN Pixel(bgData[i].r, bgData[i].g, bgData[i].b, 255)
        ELSE Transparent]

\* timeline.js:1846-1857: the final background raster finalData of
\* #applyExtraction, from the pixels of the background, the mask and the
\* pixels blurredData of the blurred background.
finalData(bgData, extractMask, blurredData) ==
    [i \in 1..Len(bgData) |->
        IF extractMask[i] > SelectionThreshold
        THEN Pixel(blurredData[i].r, blurredData[i].g, blurredData[i].b, bgData[i].a)
        ELSE bgData[i]]

\* part_000:129-141: the foreground raster fgImageData of
\* BackgroundExtractor.extract.
fgImageData(bgData, maskData) ==
    [i \in 1..Len(bgData) |->
        IF maskData[i] > 128
        THEN Pixel(bgData[i].r, bgData[i].g, bgData[i].b, 255)
        ELSE Transparent]

\* part_000:159.
blurRadius == 10

\* Distances are kept in thousandths of a pixel.
Milli == 1000

\* The largest k in lo..hi with k * k <= n.
RECURSIVE Isqrt(_, _, _)
Isqrt(n, lo, hi) ==
    IF lo = hi THEN lo
    ELSE LET mid == (lo + hi + 1) \div 2
         IN IF mid * mid <= n THEN Isqrt(n, mid, hi) ELSE Isqrt(n, lo, mid - 1)

\* part_000:182: Math.sqrt(dx * dx + dy * dy), in thousandths: exact when
\* dx or dy is 0, rounded down otherwise.
distance(dx, dy) ==
    IF dy = 0 THEN Milli * Abs(dx)
    ELSE IF dx = 0 THEN Milli * Abs(dy)
    ELSE Isqrt((dx * dx + dy * dy) * Milli * Milli, 0, 2 * blurRadius * Milli)

\* part_000:183: Math.max(0, blurRadius - distance), in thousandths.
weight(dx, dy) == Max(0, blurRadius * Milli - distance(dx, dy))

\* The sum of f over the finite set S.
RECURSIVE Sum(_, _)
Sum(f(_), S) ==
    IF S = {} THEN 0
    ELSE LET e == CHOOSE e \in S : TRUE IN f(e) + Sum(f, S \ {e})

\* Math.round of the quotient of the naturals a and b.
RoundDiv(a, b) == (2 * a + b) \div (2 * b)

\* part_000:163: the column and the row of the pixel at index i of a raster
\* w pixels wide.
ColumnOf(w, i) == (i - 1) % w

RowOf(w, i) == (i - 1) \div w

\* part_000:171-192: the pixels sampled for the pixel at index i of a w by
\* h raster: in bounds, within blurRadius in x and in y, with a mask value
\* below 128.
sampled(w, h, maskData, i) ==
    {j \in 1..(w * h) :
        /\ Abs(ColumnOf(w, j) - ColumnOf(w, i)) <= blurRadius
        /\ Abs(RowOf(w, j) - RowOf(w, i)) <= blurRadius
        /\ maskData[j] < 128}

\* filledData without its test that some weight was sampled.
filledDataUnguarded(w, h, bgData, maskData) ==
    [i \in 1..Len(bgData) |->
        LET S == sampled(w, h, maskData, i)
            wt(j) == weight(ColumnOf(w, j) - ColumnOf(w, i), RowOf(w, j) - RowOf(w, i))
            sumR(j) == bgData[j].r * wt(j)
            sumG(j) == bgData[j].g * wt(j)
            sumB(j) == bgData[j].b * wt(j)
            count == IF Sum(wt, S) > 0 THEN Sum(wt, S) ELSE 1
        IN IF maskData[i] > 128
           THEN Pixel(RoundDiv(Sum(sumR, S), count), RoundDiv(Sum(sumG, S), count),
                      RoundDiv(Sum(sumB, S), count), 255)
           ELSE bgData[i]]

\* part_000:153-202: the raster filledData of BackgroundExtractor.extract.
filledData(w, h, bgData, maskData) ==
    [i \in 1..Len(bgData) |->
        LET S == sampled(w, h, maskData, i)
            wt(j) == weight(ColumnOf(w, j) - ColumnOf(w, i), RowOf(w, j) - RowOf(w, i))
            sumR(j) == bgData[j].r * wt(j)
            sumG(j) == bgData[j].g * wt(j)
            sumB(j) == bgData[j].b * wt(j)
            count == Sum(wt, S)
        IN IF maskData[i] > 128 /\ count > 0
           THEN Pixel(RoundDiv(Sum(sumR, S), count), RoundDiv(Sum(sumG, S), count),
                      RoundDiv(Sum(sumB, S), count), 255)
           ELSE bgData[i]]

\* part_000:239-244.
kernel == <<<<1, 2, 1>>, <<2, 4, 2>>, <<1, 2, 1>>>>

kernelSum == 16

\* part_000:237: above this mask value a pixel is smoothed.
SmoothThreshold == 64

\* The conversion of the quotient of the naturals a and b to an element of
\* a Uint8ClampedArray: to the nearest integer, a tie to the even one, at
\* most 255.
ToUint8Clamped(a, b) ==
    LET q == a \div b
        r == a % b
        n == IF 2 * r < b THEN q
             ELSE IF 2 * r > b THEN q + 1
             ELSE IF q % 2 = 0 THEN q ELSE q + 1
    IN Min(255, n)

\* blurPass without its test of the mask value.
blurPassEverywhere(w, h, tempData, maskData) ==
    [i \in 1..Len(tempData) |->
        LET x == ColumnOf(w, i)
            y == RowOf(w, i)
            near == {d \in (0 - 1..1) \X (0 - 1..1) : TRUE}
            wt(d) == kernel[d[2] + 2][d[1] + 2]
            sumR(d) == tempData[i + d[2] * w + d[1]].r * wt(d)
            sumG(d) == tempData[i + d[2] * w + d[1]].g * wt(d)
            sumB(d) == tempData[i + d[2] * w + d[1]].b * wt(d)
        IN IF 1 <= x /\ x < w - 1 /\ 1 <= y /\ y < h - 1
           THEN Pixel(ToUint8Clamped(Sum(sumR, near), kernelSum),
                      ToUint8Clamped(Sum(sumG, near), kernelSum),
                      ToUint8Clamped(Sum(sumB, near), kernelSum), tempData[i].a)
           ELSE tempData[i]]

\* part_000:227-268: one iteration of applyGaussianBlur on the pixels
\* tempData of a w by h raster.
blurPass(w, h, tempData, maskData) ==
    [i \in 1..Len(tempData) |->
        LET x == ColumnOf(w, i)
            y == RowOf(w, i)
            near == {d \in (0 - 1..1) \X (0 - 1..1) : TRUE}
            wt(d) == kernel[d[2] + 2][d[1] + 2]
            sumR(d) == tempData[i + d[2] * w + d[1]].r * wt(d)
            sumG(d) == tempData[i + d[2] * w + d[1]].g * wt(d)
            sumB(d) == tempData[i + d[2] * w + d[1]].b * wt(d)
        IN IF /\ 1 <= x /\ x < w - 1 /\ 1 <= y /\ y < h - 1
              /\ maskData[i] > SmoothThreshold
           THEN Pixel(ToUint8Clamped(Sum(sumR, near), kernelSum),
                      ToUint8Clamped(Sum(sumG, near), kernelSum),
                      ToUint8Clamped(Sum(sumB, near), kernelSum), tempData[i].a)
           ELSE tempData[i]]

\* part_000:217-272 applyGaussianBlur(sourceCanvas, maskImageData, iterations).
RECURSIVE applyGaussianBlur(_, _, _, _, _)
applyGaussianBlur(w, h, source, maskData, iterations) ==
    IF iterations = 0 THEN source
    ELSE applyGaussianBlur(w, h, blurPass(w, h, source, maskData), maskData, iterations - 1)

\* part_000:207: the number of smoothing iterations extract() asks for.
BlurIterations == 5

\* The rasters a pixel computation starts from: a w by h background with
\* the pixels bgData, decoded (img) or not, the mask maskData, and the
\* pixels blurredData the canvas blur filter makes of the background; and
\* nothing computed yet.
PixelProbe(w, h, img, bgData, maskData, blurredData) ==
    [kind |-> "pixels", w |-> w, h |-> h, img |-> img, bgData |-> bgData,
     maskData |-> maskData, blurredData |-> blurredData,
     by |-> "none", foreground |-> <<>>, filled |-> <<>>, background |-> <<>>]

\* timeline.js:1776-1857: the rasters #applyExtraction computes, fgData and
\* finalData, or none when it returns early.
ExtractionRasters ==
    /\ probe.kind = "pixels" /\ probe.by = "none"
    /\ probe' = IF probe.img /\ hasSelection(probe.maskData)
                THEN [probe EXCEPT !.by = "applyExtraction",
                         !.foreground = fgData(probe.bgData, probe.maskData),
                         !.background = finalData(probe.bgData, probe.maskData, probe.blurredData)]
                ELSE [probe EXCEPT !.by = "applyExtraction rejected"]
    /\ lastOp' = Op("extractionRasters", FALSE, FALSE, 0)
    /\ UNCHANGED <<playVars, hostVars>>
    /\ UNCHANGED <<projVars, toolVars, currentTime, layers, selectedId, dragKeyframe,
                   renderPending, redraws, persistTimer, timeouts, widgetKeyframes, pending, loads, edits>>

\* part_000:98-214 BackgroundExtractor.extract: the foreground and the
\* background it returns, or none when it throws.
ExtractorExtract ==
    /\ probe.kind = "pixels" /\ probe.by = "none"
    /\ probe' = IF probe.img
                THEN LET filled == filledData(probe.w, probe.h, probe.bgData, probe.maskData)
                     IN [probe EXCEPT !.by = "extract",
                            !.foreground = fgImageData(probe.bgData, probe.maskData),
                            !.filled = filled,
                            !.background = applyGaussianBlur(probe.w, probe.h, filled,
                                                             probe.maskData, BlurIterations)]
                ELSE [probe EXCEPT !.by = "extract threw"]
    /\ lastOp' = Op("extractorExtract", FALSE, FALSE, 0)
    /\ UNCHANGED <<playVars, hostVars>>
    /\ UNCHANGED <<projVars, toolVars, currentTime, layers, selectedId, dragKeyframe,
                   renderPending, redraws, persistTimer, timeouts, widgetKeyframes, pending, loads, edits>>

(***************************************************************************)
(* SpecPixels: the rasters of an extraction.  Backgrounds of 12 by 1 and   *)
(* of 3 by 3 opaque pixels and masks are drawn from patterns in which the  *)
(* first pixel, the last pixel and the pixels between take one value each. *)
(***************************************************************************)

PxSizes == {[w |-> 12, h |-> 1], [w |-> 3, h |-> 3]}

\* Colour levels of the background.
PxLevels == {10, 200}

\* The colour level of the blurred background.
PxBlurLevels == {77}

\* Mask values: unselected, unselected but above the smoothing threshold,
\* the selection threshold itself, selected.
PxMaskValues == {0, 100, 128, 255}

\* An opaque colour with three different channels.
Colour(v) == Pixel(v, (v + 40) % 256, 255 - v, 255)

\* The sequence of n elements: first, mid ..., last.
Pattern(n, first, mid, last) ==
    [i \in 1..n |-> IF i = 1 THEN first ELSE IF i = n THEN last ELSE mid]

PxWidget == Widget(FALSE, FALSE, <<>>)

InitPixels ==
    /\ InitState(constructed(NaN, NaN, PxWidget), PxWidget)
    /\ \E size \in PxSizes, img \in BOOLEAN, blur \in PxBlurLevels,
          b1 \in PxLevels, b2 \in PxLevels, b3 \in PxLevels,
          m1 \in PxMaskValues, m2 \in PxMaskValues, m3 \in PxMaskValues :
          LET n == size.w * size.h
          IN probe = PixelProbe(size.w, size.h, img,
                                Pattern(n, Colour(b1), Colour(b2), Colour(b3)),
                                Pattern(n, m1, m2, m3),
                                Pattern(n, Colour(blur), Colour(blur), Colour(blur)))

NextPixels ==
    \/ ExtractionRasters
    \/ ExtractorExtract

SpecPixels == InitPixels /\ [][NextPixels]_vars

\* The extraction has computed its rasters.
Extracted == probe.kind = "pixels" /\ probe.by \in {"applyExtraction", "extract"}

SameColour(p, q) == p.r = q.r /\ p.g = q.g /\ p.b = q.b

\* C13: every pixel of the extracted foreground is opaque with the colour
\* of the background pixel if its mask value is above 128, and has alpha 0
\* otherwise, in #applyExtraction and in BackgroundExtractor.extract.
C13_ForegroundPartition ==
    Extracted =>
        \A i \in 1..Len(probe.bgData) :
            /\ (probe.foreground[i].a = 255 /\ SameColour(probe.foreground[i], probe.bgData[i]))
                  <=> probe.maskData[i] > 128
            /\ probe.maskData[i] <= 128 => probe.foreground[i].a = 0

\* #applyExtraction has cut a foreground out of a background with a
\* selected pixel and a pixel at the threshold.
C13_Witness ==
    /\ probe.kind = "pixels" /\ probe.by = "applyExtraction"
    /\ \E i, j \in 1..Len(probe.maskData) : probe.maskData[i] = 255 /\ probe.maskData[j] = 128

\* C14 as stated: after extraction every pixel of the final background
\* whose mask value is at most 128 is byte-identical to the pixel of the
\* original background, in #applyExtraction and in
\* BackgroundExtractor.extract.
C14_UnselectedPixelsKept ==
    Extracted =>
        \A i \in 1..Len(probe.bgData) :
            probe.maskData[i] <= 128 => probe.background[i] = probe.bgData[i]

\* C14, amended: after extraction every pixel of the final background is
\* byte-identical to the pixel of the original background if its mask
\* value is at most 128 in #applyExtraction, and if its mask value is at
\* most 64 in BackgroundExtractor.extract.
C14_UntouchedPixelsKept ==
    Extracted =>
        \A i \in 1..Len(probe.bgData) :
            /\ probe.by = "applyExtraction" /\ probe.maskData[i] <= 128
                  => probe.background[i] = probe.bgData[i]
            /\ probe.by = "extract" /\ probe.maskData[i] <= 64
                  => probe.background[i] = probe.bgData[i]

\* BackgroundExtractor.extract has smoothed a pixel with a mask value
\* between the two thresholds, beside pixels with the mask value 0.
C14_Witness ==
    /\ probe.kind = "pixels" /\ probe.by = "extract"
    /\ \E i, j \in 1..Len(probe.bgData) :
          /\ probe.maskData[i] = 100 /\ probe.background[i] # probe.bgData[i]
          /\ probe.maskData[j] = 0

\* The pixels within the radius of the hole fill around pixel i whose mask
\* value is at most the selection threshold.
Unselected(i) ==
    {j \in 1..Len(probe.maskData) :
        /\ distance(ColumnOf(probe.w, j) - ColumnOf(probe.w, i),
                    RowOf(probe.w, j) - RowOf(probe.w, i)) <= blurRadius * Milli
        /\ probe.maskData[j] <= 128}

\* The rounded average of the background over the pixels of S, each
\* weighted by max(0, blurRadius - distance) from pixel i.
WeightedAverage(i, S) ==
    LET wt(j) == LET d == distance(ColumnOf(probe.w, j) - ColumnOf(probe.w, i),
                                   RowOf(probe.w, j) - RowOf(probe.w, i))
                 IN IF d < blurRadius * Milli THEN blurRadius * Milli - d ELSE 0
        sumR(j) == probe.bgData[j].r * wt(j)
        sumG(j) == probe.bgData[j].g * wt(j)
        sumB(j) == probe.bgData[j].b * wt(j)
    IN Pixel(RoundDiv(Sum(sumR, S), Sum(wt, S)), RoundDiv(Sum(sumG, S), Sum(wt, S)),
             RoundDiv(Sum(sumB, S), Sum(wt, S)), 255)

TotalWeight(i, S) ==
    LET wt(j) == LET d == distance(ColumnOf(probe.w, j) - ColumnOf(probe.w, i),
                                   RowOf(probe.w, j) - RowOf(probe.w, i))
                 IN IF d < blurRadius * Milli THEN blurRadius * Milli - d ELSE 0
    IN Sum(wt, S)

\* C15: the hole fill of BackgroundExtractor.extract gives every selected
\* pixel the rounded weighted average of the background over the pixels
\* within the radius 10 whose mask value is at most 128, the value 128
\* included, with the weight max(0, 10 - distance).
C15_FillAveragesUnselected ==
    probe.kind = "pixels" /\ probe.by = "extract" =>
        \A i \in 1..Len(probe.bgData) :
            probe.maskData[i] > 128 /\ TotalWeight(i, Unselected(i)) > 0
                => probe.filled[i] = WeightedAverage(i, Unselected(i))

\* C16: a selected pixel with no unselected pixel within the radius 10
\* keeps the colour of the original background in the hole fill of
\* BackgroundExtractor.extract.
C16_IsolatedPixelKept ==
    probe.kind = "pixels" /\ probe.by = "extract" =>
        \A i \in 1..Len(probe.bgData) :
            probe.maskData[i] > 128 /\ Unselected(i) = {}
                => probe.filled[i] = probe.bgData[i]

\* The hole fill has left a selected pixel farther than the radius from
\* the one unselected pixel, and has filled another selected pixel.
C16_Witness ==
    /\ probe.kind = "pixels" /\ probe.by = "extract"
    /\ \E i, k \in 1..Len(probe.bgData) :
          /\ probe.maskData[i] > 128 /\ Unselected(i) = {}
          /\ \E j \in 1..Len(probe.bgData) : probe.maskData[j] <= 128
          /\ probe.maskData[k] > 128 /\ probe.filled[k] # probe.bgData[k]

(***************************************************************************)
(* Coordinates.  The numbers of the drawing transforms and of their        *)
(* inverses are exact quotients of integers in lowest terms, so two of     *)
(* them are equal as numbers exactly when they are equal as records.       *)
(***************************************************************************)

RECURSIVE Gcd(_, _)
Gcd(a, b) == IF b = 0 THEN a ELSE Gcd(b, a % b)

\* The quotient n / d, d not 0.
Rat(n, d) ==
    LET g == Gcd(Abs(n), Abs(d))
    IN [n |-> (IF d < 0 THEN 0 - n ELSE n) \div g, d |-> Abs(d) \div g]

RInt(k) == Rat(k, 1)

RAdd(a, b) == Rat(a.n * b.d + b.n * a.d, a.d * b.d)

RSub(a, b) == Rat(a.n * b.d - b.n * a.d, a.d * b.d)

RMul(a, b) == Rat(a.n * b.n, a.d * b.d)

RDiv(a, b) == Rat(a.n * b.d, a.d * b.n)

RLeq(a, b) == a.n * b.d <= b.n * a.d

RMin(a, b) == IF RLeq(a, b) THEN a ELSE b

RMax(a, b) == IF RLeq(a, b) THEN b ELSE a

\* A number of the model, kept in hundredths, as a quotient.
Hundredths(v) == Rat(v, One)

\* Math.cos and Math.sin of an angle of `rotation` hundredths of a degree,
\* a multiple of a quarter turn.
Cos(rotation) ==
    LET deg == (rotation \div One) % 360
    IN RInt(IF deg = 0 THEN 1 ELSE IF deg = 180 THEN 0 - 1 ELSE 0)

Sin(rotation) ==
    LET deg == (rotation \div One) % 360
    IN RInt(IF deg = 90 THEN 1 ELSE IF deg = 270 THEN 0 - 1 ELSE 0)

\* ctx.rotate: the point p turned by the angle.
Rotate(p, rotation) ==
    Point(RSub(RMul(p.x, Cos(rotation)), RMul(p.y, Sin(rotation))),
          RAdd(RMul(p.x, Sin(rotation)), RMul(p.y, Cos(rotation))))

\* timeline.js:726-727 and 808-809: -1 for a flipped axis.
FlipSign(flip) == RInt(IF 2 * flip > One THEN 0 - 1 ELSE 1)

\* timeline.js:719-731 #render, foreground branch: the canvas point at
\* which the point p of the raster layer.img, of the size img, is drawn.
renderForeground(cv, layer, img, p) ==
    LET sx == RMul(Hundredths(Or(layer.scale_x, One)), FlipSign(layer.flip_h))
        sy == RMul(Hundredths(Or(layer.scale_y, One)), FlipSign(layer.flip_v))
        local == Point(RMul(sx, RSub(p.x, Rat(img.w, 2))), RMul(sy, RSub(p.y, Rat(img.h, 2))))
        r == Rotate(local, layer.rotation)
    IN Point(RAdd(RAdd(Rat(cv.w, 2), Hundredths(layer.x)), r.x),
             RAdd(RAdd(Rat(cv.h, 2), Hundredths(layer.y)), r.y))

\* #canvasToLayerCoords turning the point the way #render turns it.
canvasToLayerCoordsSameTurn(cv, canvasPos, layer, img) ==
    LET cx == RAdd(Rat(cv.w, 2), Hundredths(layer.x))
        cy == RAdd(Rat(cv.h, 2), Hundredths(layer.y))
        r == Rotate(Point(RSub(canvasPos.x, cx), RSub(canvasPos.y, cy)), layer.rotation)
        sx == RMul(Hundredths(Or(layer.scale_x, One)), FlipSign(layer.flip_h))
        sy == RMul(Hundredths(Or(layer.scale_y, One)), FlipSign(layer.flip_v))
    IN Point(RAdd(RDiv(r.x, sx), Rat(img.w, 2)), RAdd(RDiv(r.y, sy), Rat(img.h, 2)))

\* timeline.js:1951-1972 #canvasToLayerCoords.
canvasToLayerCoords(cv, canvasPos, layer, img) ==
    LET cx == RAdd(Rat(cv.w, 2), Hundredths(layer.x))
        cy == RAdd(Rat(cv.h, 2), Hundredths(layer.y))
        r == Rotate(Point(RSub(canvasPos.x, cx), RSub(canvasPos.y, cy)), 0 - layer.rotation)
        sx == RMul(Hundredths(Or(layer.scale_x, One)), FlipSign(layer.flip_h))
        sy == RMul(Hundredths(Or(layer.scale_y, One)), FlipSign(layer.flip_v))
    IN Point(RAdd(RDiv(r.x, sx), Rat(img.w, 2)), RAdd(RDiv(r.y, sy), Rat(img.h, 2)))

\* baseScale with the two modes exchanged.
baseScaleExchanged(bg_mode, cv, img) ==
    IF bg_mode = "fit" THEN RMax(Rat(cv.w, img.w), Rat(cv.h, img.h))
    ELSE RMin(Rat(cv.w, img.w), Rat(cv.h, img.h))

\* timeline.js:817-822 and 1983-1990: the scale that fits the raster in the
\* canvas or fills the canvas with it.
baseScale(bg_mode, cv, img) ==
    IF bg_mode = "fit" THEN RMin(Rat(cv.w, img.w), Rat(cv.h, img.h))
    ELSE RMax(Rat(cv.w, img.w), Rat(cv.h, img.h))

\* timeline.js:796-829 #drawBackground: the canvas point at which the point
\* p of the raster layer.img, of the size img, is drawn.
drawBackground(cv, layer, img, p) ==
    LET userScaleX == Hundredths(Or(layer.scale_x, One))
        userScaleY == Hundredths(Or(layer.scale_y, One))
        flipX == FlipSign(layer.flip_h)
        flipY == FlipSign(layer.flip_v)
        drawW == RMul(RInt(cv.w), userScaleX)
        drawH == RMul(RInt(cv.h), userScaleY)
        bs == baseScale(layer.bg_mode, cv, img)
        local ==
            IF layer.bg_mode = "stretch"
            THEN Point(RMul(flipX, RSub(RMul(RDiv(p.x, RInt(img.w)), drawW), RDiv(drawW, RInt(2)))),
                       RMul(flipY, RSub(RMul(RDiv(p.y, RInt(img.h)), drawH), RDiv(drawH, RInt(2)))))
            ELSE Point(RMul(RMul(RMul(bs, userScaleX), flipX), RSub(p.x, Rat(img.w, 2))),
                       RMul(RMul(RMul(bs, userScaleY), flipY), RSub(p.y, Rat(img.h, 2))))
        r == Rotate(local, Or(layer.rotation, 0))
    IN Point(RAdd(RAdd(Rat(cv.w, 2), Hundredths(Or(layer.x, 0))), r.x),
             RAdd(RAdd(Rat(cv.h, 2), Hundredths(Or(layer.y, 0))), r.y))

\* timeline.js:1974-2005 #canvasToBgCoords.
canvasToBgCoords(cv, canvasPos, bgLayer, img) ==
    LET bgMode == IF bgLayer.bg_mode = "" THEN "fit" ELSE bgLayer.bg_mode
        bs == IF bgMode = "stretch" THEN RInt(1) ELSE baseScale(bgMode, cv, img)
        finalScale == RMul(bs, Hundredths(Or(bgLayer.scale_x, One)))
        bgCenterX == RAdd(Rat(cv.w, 2), Hundredths(Or(bgLayer.x, 0)))
        bgCenterY == RAdd(Rat(cv.h, 2), Hundredths(Or(bgLayer.y, 0)))
    IN Point(RAdd(RDiv(RSub(canvasPos.x, bgCenterX), finalScale), Rat(img.w, 2)),
             RAdd(RDiv(RSub(canvasPos.y, bgCenterY), finalScale), Rat(img.h, 2)))

\* The canvas rectangle over which a raster of the size img is drawn by the
\* drawing transform that takes its corners to the canvas points a and b.
Rect(a, b) ==
    [left |-> RMin(a.x, b.x), right |-> RMax(a.x, b.x),
     top |-> RMin(a.y, b.y), bottom |-> RMax(a.y, b.y)]

NoPoint == Point(Undefined, Undefined)

NoRect == [left |-> Undefined, right |-> Undefined, top |-> Undefined, bottom |-> Undefined]

\* A canvas of the size cv, a layer whose decoded raster has the size img
\* and a point `at` of that raster; then the canvas point at which the
\* point is drawn, the raster point found back from it, and the rectangles
\* of an extraction.
PointProbe(cv, layer, img, at) ==
    [kind |-> "point", canvas |-> cv, layer |-> layer, img |-> img, at |-> at,
     by |-> "none", canvasPos |-> NoPoint, back |-> NoPoint,
     fgRect |-> NoRect, bgRect |-> NoRect]

\* timeline.js:711-731 #render: the layer is drawn.
RenderPoint ==
    /\ probe.kind = "point" /\ probe.by = "none"
    /\ probe' = [probe EXCEPT !.by = "render",
                   !.canvasPos = IF probe.layer.type = "background"
                                 THEN drawBackground(probe.canvas, probe.layer, probe.img, probe.at)
                                 ELSE renderForeground(probe.canvas, probe.layer, probe.img, probe.at)]
    /\ lastOp' = Op("renderPoint", FALSE, FALSE, 0)
    /\ UNCHANGED <<playVars, hostVars>>
    /\ UNCHANGED <<projVars, toolVars, currentTime, layers, selectedId, dragKeyframe,
                   renderPending, redraws, persistTimer, timeouts, widgetKeyframes, pending, loads, edits>>

\* timeline.js:2016 and 2023: a pointer at the canvas point is taken to the
\* raster of the background by the extract tool, and to the raster of the
\* layer by the mask tool.
CanvasToCoords ==
    /\ probe.kind = "point" /\ probe.by = "render"
    /\ probe' = IF probe.layer.type = "background"
                THEN [probe EXCEPT !.by = "canvasToBgCoords",
                         !.back = canvasToBgCoords(probe.canvas, probe.canvasPos,
                                                   probe.layer, probe.img)]
                ELSE [probe EXCEPT !.by = "canvasToLayerCoords",
                         !.back = canvasToLayerCoords(probe.canvas, probe.canvasPos,
                                                      probe.layer, probe.img)]
    /\ lastOp' = Op("canvasToCoords", FALSE, FALSE, 0)
    /\ UNCHANGED <<playVars, hostVars>>
    /\ UNCHANGED <<projVars, toolVars, currentTime, layers, selectedId, dragKeyframe,
                   renderPending, redraws, persistTimer, timeouts, widgetKeyframes, pending, loads, edits>>

\* timeline.js:1861-1893 #applyExtraction: the raster of the new layer has
\* the size of the canvas; the rectangles over which #render then draws the
\* new layer and the background.
ExtractionPlacement ==
    /\ probe.kind = "point" /\ probe.by = "none"
    /\ probe.layer.type = "background"
    /\ LET cv == probe.canvas
           newLayer == Layer(0, Id("extracted", 0), "foreground", NoRaster, NoRaster, One, One)
           resizedFg == [w |-> cv.w, h |-> cv.h]
           origin == Point(RInt(0), RInt(0))
       IN probe' = [probe EXCEPT !.by = "applyExtraction",
                      !.fgRect = Rect(renderForeground(cv, newLayer, resizedFg, origin),
                                      renderForeground(cv, newLayer, resizedFg,
                                                       Point(RInt(resizedFg.w), RInt(resizedFg.h)))),
                      !.bgRect = Rect(drawBackground(cv, probe.layer, probe.img, origin),
                                      drawBackground(cv, probe.layer, probe.img,
                                                     Point(RInt(probe.img.w), RInt(probe.img.h))))]
    /\ lastOp' = Op("extractionPlacement", FALSE, FALSE, 0)
    /\ UNCHANGED <<playVars, hostVars>>
    /\ UNCHANGED <<projVars, toolVars, currentTime, layers, selectedId, dragKeyframe,
                   renderPending, redraws, persistTimer, timeouts, widgetKeyframes, pending, loads, edits>>

(***************************************************************************)
(* SpecGeometry: a layer with its transform on a canvas, and a point of    *)
(* its raster.                                                             *)
(***************************************************************************)

GeCanvases == {[w |-> 8, h |-> 4], [w |-> 4, h |-> 4]}

GeRasters == {[w |-> 4, h |-> 2], [w |-> 2, h |-> 2]}

GeKinds == {[type |-> "foreground", bg_mode |-> "fit"], [type |-> "background", bg_mode |-> "fit"],
            [type |-> "background", bg_mode |-> "fill"],
            [type |-> "background", bg_mode |-> "stretch"]}

GeOffsets == {0, 3 * One}

GeScalesX == {One \div 2, One, 2 * One}

GeScalesY == {One, 2 * One}

GeRotations == {0, 90 * One, 180 * One, 270 * One}

GeFlips == {0, One}

GePoints == {Point(RInt(0), RInt(0)), Point(RInt(1), RInt(2))}

\* A raster of 1000 by 500 on the canvas of the default project.
GeExample == [cv |-> [w |-> 1280, h |-> 720], img |-> [w |-> 1000, h |-> 500]]

GeScenes == {[cv |-> cv, img |-> img] : cv \in GeCanvases, img \in GeRasters} \cup {GeExample}

GeWidget == Widget(FALSE, FALSE, <<>>)

InitGeometry ==
    /\ InitState(constructed(NaN, NaN, GeWidget), GeWidget)
    /\ \E scene \in GeScenes, kind \in GeKinds, at \in GePoints,
          x \in GeOffsets, y \in GeOffsets, sx \in GeScalesX, sy \in GeScalesY,
          rotation \in GeRotations, fh \in GeFlips, fv \in GeFlips :
          probe = PointProbe(scene.cv,
                     [Layer(0, Id("layer", 0), kind.type, NoRaster, NoRaster, One, One)
                         EXCEPT !.bg_mode = kind.bg_mode, !.x = x, !.y = 0 - y,
                                !.scale_x = sx, !.scale_y = sy, !.rotation = rotation,
                                !.flip_h = fh, !.flip_v = fv],
                     scene.img, at)

NextGeometry ==
    \/ RenderPoint
    \/ CanvasToCoords
    \/ ExtractionPlacement

SpecGeometry == InitGeometry /\ [][NextGeometry]_vars

\* The layer of the probe is placed as a new layer is.
DefaultPlacement ==
    /\ probe.layer.x = 0 /\ probe.layer.y = 0
    /\ probe.layer.scale_x = One /\ probe.layer.scale_y = One
    /\ probe.layer.rotation = 0
    /\ probe.layer.flip_h = 0 /\ probe.layer.flip_v = 0

\* C18: for every background mode, raster size and canvas size, the layer
\* an extraction creates is drawn at its default placement over exactly the
\* canvas rectangle over which the background, itself at the default
\* placement, is drawn.
C18_ForegroundCoversBackground ==
    probe.kind = "point" /\ probe.by = "applyExtraction" /\ DefaultPlacement
        => probe.fgRect = probe.bgRect

\* C19: for a foreground layer with any offset, positive scales, a rotation
\* of a multiple of a quarter turn and any flips, #canvasToLayerCoords
\* returns the raster point from the canvas point at which #render draws it.
C19_LayerCoordsRoundTrip ==
    /\ probe.kind = "point" /\ probe.by = "canvasToLayerCoords"
    /\ probe.layer.scale_x > 0 /\ probe.layer.scale_y > 0
    => probe.back = probe.at

\* A point of a layer that is moved, turned a quarter, flipped and scaled
\* unevenly has been drawn away from where it is in the raster, and found
\* back.
C19_Witness ==
    /\ probe.kind = "point" /\ probe.by = "canvasToLayerCoords"
    /\ probe.layer.x # 0 /\ probe.layer.y # 0
    /\ probe.layer.rotation = 90 * One
    /\ probe.layer.scale_x # probe.layer.scale_y
    /\ probe.layer.flip_h = One /\ probe.layer.flip_v = 0
    /\ probe.canvasPos # probe.at
    /\ probe.back = probe.at

\* C20: for every mode, offset, scale, rotation and flip of the background,
\* #canvasToBgCoords returns the raster point from the canvas point at which
\* #drawBackground draws it.
C20_BgCoordsRoundTrip ==
    probe.kind = "point" /\ probe.by = "canvasToBgCoords" => probe.back = probe.at

\* The width and the height of the rectangle over which #drawBackground
\* draws the background of the probe.
DrawnW == RSub(probe.bgRect.right, probe.bgRect.left)

DrawnH == RSub(probe.bgRect.bottom, probe.bgRect.top)

\* C21: a background with the scales 1 is drawn in the mode fit inside the
\* canvas and in the mode fill over the whole canvas, in both modes with the
\* width or the height of the canvas.
C21_FitInsideFillCovers ==
    /\ probe.kind = "point" /\ probe.by = "applyExtraction"
    /\ probe.layer.scale_x = One /\ probe.layer.scale_y = One /\ probe.layer.rotation = 0
    => LET W == RInt(probe.canvas.w)
           H == RInt(probe.canvas.h)
       IN /\ probe.layer.bg_mode = "fit" =>
                /\ RLeq(DrawnW, W) /\ RLeq(DrawnH, H)
                /\ DrawnW = W \/ DrawnH = H
          /\ probe.layer.bg_mode = "fill" =>
                /\ RLeq(W, DrawnW) /\ RLeq(H, DrawnH)
                /\ DrawnW = W \/ DrawnH = H

\* The raster of 1000 by 500 is drawn in the mode fit on the canvas of 1280
\* by 720 with the width 1280 and the height 640.
C21_Witness ==
    /\ probe.kind = "point" /\ probe.by = "applyExtraction"
    /\ probe.canvas = GeExample.cv /\ probe.img = GeExample.img
    /\ probe.layer.bg_mode = "fit"
    /\ probe.layer.scale_x = One /\ probe.layer.scale_y = One /\ probe.layer.rotation = 0
    /\ baseScale("fit", probe.canvas, probe.img) = Rat(128, 100)
    /\ DrawnW = RInt(1280) /\ DrawnH = RInt(640)

(***************************************************************************)
(* Playback.                                                               *)
(***************************************************************************)

\* A tick callback held by requestAnimationFrame: its handle, and the start
\* and origin its closure captured (timeline.js:1703-1704).
Tick(id, start, origin) == [id |-> id, start |-> start, origin |-> origin]

\* The handle requestAnimationFrame returns: a positive number that names no
\* callback it holds and differs from the last handle it gave out.
FreshHandle(held, last) ==
    CHOOSE n \in 1..(Cardinality(held) + 2) :
        /\ n # last
        /\ \A t \in held : t.id # n

\* The displayed time without the modulo.
nextTimeUnwrapped(origin, elapsed, d) == origin + elapsed

\* timeline.js:1707-1708: the time a tick displays, elapsed after the start.
nextTime(origin, elapsed, d) == IF d > 0 THEN (origin + elapsed) % d ELSE NaN

\* cancelAnimationFrame cancelling nothing.
cancelAnimationFrameNothing(held, id) == held

\* cancelAnimationFrame(id): the callback with that handle is dropped.
cancelAnimationFrame(held, id) == {t \in held : t.id # id}

\* timeline.js:1705-1711 tick, past its guard: the time is applied and the
\* next tick is requested; held are the callbacks still waiting.
tick(start, origin, held) ==
    /\ ApplyTime(layers, nextTime(origin, now - start, duration))
    /\ rafId' = FreshHandle(held, rafId)
    /\ ticks' = held \cup {Tick(FreshHandle(held, rafId), start, origin)}

\* timeline.js:1700-1713 #startPlayback (the play button, timeline.js:600).
StartPlayback ==
    /\ IF playing
       THEN UNCHANGED <<playing, rafId, ticks, currentTime, layers, renderPending, redraws>>
       ELSE /\ playing' = TRUE
            /\ tick(now, currentTime, ticks)
    /\ lastOp' = Op("startPlayback", ~playing, FALSE, 0)
    /\ UNCHANGED <<now, probe, hostVars>>
    /\ UNCHANGED <<projVars, toolVars, selectedId, dragKeyframe, persistTimer, timeouts,
                   widgetKeyframes, pending, loads, edits>>

\* timeline.js:1705-1711: the display refresh runs the tick callback t.
PlaybackTick(t) ==
    /\ t \in ticks
    /\ IF ~playing
       THEN /\ ticks' = ticks \ {t}
            /\ UNCHANGED <<rafId, currentTime, layers, renderPending, redraws>>
       ELSE tick(t.start, t.origin, ticks \ {t})
    /\ lastOp' = Op("tick", playing, FALSE, 0)
    /\ UNCHANGED <<playing, now, probe, hostVars>>
    /\ UNCHANGED <<projVars, toolVars, selectedId, dragKeyframe, persistTimer, timeouts,
                   widgetKeyframes, pending, loads, edits>>

\* timeline.js:1715-1718 #stopPlayback.
stopPlayback ==
    /\ playing' = FALSE
    /\ ticks' = IF rafId # 0 THEN cancelAnimationFrame(ticks, rafId) ELSE ticks
    /\ UNCHANGED <<rafId, now, probe, hostVars>>
    /\ UNCHANGED <<projVars, toolVars, currentTime, layers, selectedId, dragKeyframe,
                   renderPending, redraws, persistTimer, timeouts, widgetKeyframes,
                   pending, loads, edits>>

\* timeline.js:601: the stop button.
StopPlayback == stopPlayback /\ lastOp' = Op("stopPlayback", playing, FALSE, 0)

\* timeline.js:29-32 dispose.
Dispose == stopPlayback /\ lastOp' = Op("dispose", playing, FALSE, 0)

\* performance.now() moves on by d.
ClockAdvance(d) ==
    /\ now + d <= MaxAdvances * PbStep
    /\ now' = now + d
    /\ lastOp' = Op("clock", FALSE, FALSE, 0)
    /\ UNCHANGED <<playing, rafId, ticks, probe, hostVars>>
    /\ UNCHANGED <<projVars, toolVars, currentTime, layers, selectedId, dragKeyframe,
                   renderPending, redraws, persistTimer, timeouts, widgetKeyframes,
                   pending, loads, edits>>

(***************************************************************************)
(* SpecRender: the deferred work.  The editor is constructed on a node     *)
(* whose keyframes widget holds a foreground layer and a background, each  *)
(* with an encoded raster, so the two bulk decodes of load() are in flight *)
(* at the start; the user scrubs, selects, edits x and clears the cache    *)
(* while decodes settle, redraws run and the persist timer fires.          *)
(***************************************************************************)

RdTimes == {TicksPerSecond}

RdInputs == {One}

RdWidget ==
    Widget(TRUE, TRUE,
           <<Descriptor(Id("layer", 0), "foreground", Raster("widget", 1)),
             Descriptor(BackgroundId, "background", Raster("widget", 2))>>)

InitRender == InitFrom(constructed(NaN, NaN, RdWidget), RdWidget)

NextRender ==
    \/ \E p \in pending, ok \in BOOLEAN : BulkDecodeDone(p, ok)
    \/ \E p \in pending, ok \in BOOLEAN : LazyDecodeDone(p, ok)
    \/ RenderFrame
    \/ PersistFire
    \/ ClearUnusedCache
    \/ \E t \in RdTimes : Go(t)
    \/ \E i \in 1..Len(layers) : SelectLayer(layers[i].id)
    \/ \E v \in RdInputs : SetProp("x", v)

SpecRender == InitRender /\ [][NextRender]_vars

\* The display refreshes: a redraw callback that is scheduled runs.
SpecRenderFair == SpecRender /\ WF_vars(RenderFrame)

\* C22: at most one redraw callback is scheduled at any time, and one is
\* scheduled exactly while _renderPending is set: requests made while a
\* callback is scheduled add none.
C22_OneRedrawPending ==
    /\ redraws <= 1
    /\ renderPending <=> redraws = 1

\* A layer with an encoded raster, no decoded one and no decode in flight
\* shows that no redraw has run since the request of the step that left it
\* so; the Go button has made another request since, and one callback is
\* scheduled.
C22_Witness ==
    /\ lastOp.name = "go"
    /\ pending = {}
    /\ \E i \in 1..Len(layers) :
          layers[i].image_data # NoRaster /\ layers[i].img = NoRaster /\ ~layers[i].imgLoading
    /\ redraws = 1

\* C23: whenever a redraw has been requested, a redraw runs later, after
\* which no request is left, provided scheduled callbacks run.
C23_RequestsAreRedrawn ==
    renderPending ~> (lastOp.name = "renderFrame" /\ ~renderPending)

\* A redraw has run after the time and the x of the layer were changed, and
\* no request is left.
C23_Witness ==
    /\ lastOp.name = "renderFrame" /\ ~renderPending /\ redraws = 0
    /\ currentTime = TicksPerSecond
    /\ \E i \in 1..Len(layers) : layers[i].x = One

\* C24: at most one timer of #persist is live at any time, the one
\* this._persistTimer names; every request leaves exactly one, so a burst
\* of requests is followed by one write; the write serializes the layers as
\* they are when the timer fires and leaves no timer.
C24_PersistDebounced ==
    [][/\ timeouts <= 1 /\ timeouts' <= 1
       /\ timeouts' = 1 <=> persistTimer'.set
       /\ lastOp'.persisted /\ widgetKeyframes.present => timeouts' = 1
       /\ lastOp'.name = "persistFire" =>
             /\ widgetKeyframes' = Widget(TRUE, TRUE, Payload(layers', persistTimer.include))
             /\ timeouts' = 0]_vars

\* load() has requested a write when its decodes settled and the x input
\* has requested another; nothing has been written yet and one timer is
\* live, with the argument of the last request.
C24_Witness ==
    /\ lastOp.name = "input" /\ lastOp.persisted
    /\ pending = {}
    /\ widgetKeyframes = RdWidget
    /\ timeouts = 1 /\ persistTimer = [set |-> TRUE, include |-> FALSE]

(***************************************************************************)
(* Playback of the constructed timeline.                                   *)
(***************************************************************************)

PbSteps == {PbStep}

InitPlayback == InitFrom(constructed(NaN, NaN, KfWidget), KfWidget)

NextPlayback ==
    \/ StartPlayback
    \/ \E t \in ticks : PlaybackTick(t)
    \/ StopPlayback
    \/ Dispose
    \/ \E d \in PbSteps : ClockAdvance(d)
    \/ RenderFrame

SpecPlayback == InitPlayback /\ [][NextPlayback]_vars

\* C25: while playback runs, every tick (the one startPlayback runs itself
\* included) displays (origin + elapsed) mod duration, where origin is the
\* time displayed when playback started and elapsed the clock time since
\* then; the value is a function of the elapsed time only, and it lies in
\* [0, duration).
C25_TickDisplaysElapsedTime ==
    [][lastOp'.name \in {"startPlayback", "tick"} /\ lastOp'.applied =>
          \E t \in ticks' :
              /\ t.id = rafId'
              /\ IF lastOp'.name = "startPlayback"
                 THEN t.origin = currentTime /\ t.start = now
                 ELSE \E u \in ticks : u.origin = t.origin /\ u.start = t.start
              /\ currentTime' = (t.origin + (now' - t.start)) % duration'
              /\ 0 <= currentTime' /\ currentTime' < duration']_vars

\* A tick of a chain that started away from 0 has wrapped around the end.
C25_Witness ==
    /\ lastOp.name = "tick" /\ lastOp.applied /\ playing
    /\ \E t \in ticks : /\ t.origin # 0
                        /\ t.origin + (now - t.start) >= duration
                        /\ currentTime = (t.origin + (now - t.start)) % duration

\* C26: between stopPlayback (or dispose) and the next startPlayback no tick
\* changes the current time, and requestAnimationFrame never holds the
\* callbacks of two tick chains.
C26_StoppedPlaybackStaysStopped ==
    [][/\ Cardinality(ticks') <= 1
       /\ lastOp'.name \in {"stopPlayback", "dispose"} => ~playing'
       /\ ~playing /\ lastOp'.name = "tick" =>
              currentTime' = currentTime /\ layers' = layers]_vars

\* Playback was started again after an earlier chain had moved the time and
\* was stopped: one callback is held.
C26_Witness ==
    /\ lastOp.name = "startPlayback" /\ lastOp.applied /\ playing
    /\ \E t \in ticks : t.origin # 0 /\ t.start = now /\ ticks = {t}

\* C27: for every layer at most one raster decode is outstanding, whether it
\* was started by the bulk decode of load() or by the lazy decode of a
\* redraw.
C27_OneDecodePerLayer ==
    \A p, q \in pending : p.target = q.target => p = q

\* Whether a decode for the layer l is outstanding.
InFlight(l) == \E p \in pending : p.target = l.oid

\* C28: Clear Cache keeps the decoded raster of the selected layer and of
\* every layer with a decode in flight, changes no field of a layer but its
\* decoded raster, and keeps the order of the layers.
C28_ClearCacheKeepsSelectedAndInFlight ==
    [][lastOp'.name = "clearUnusedCache" =>
          /\ Len(layers') = Len(layers)
          /\ \A i \in 1..Len(layers) :
                /\ [layers'[i] EXCEPT !.img = layers[i].img] = layers[i]
                /\ layers'[i].img \in {layers[i].img, NoRaster}
                /\ layers[i].id = selectedId \/ InFlight(layers[i]) =>
                       layers'[i].img = layers[i].img]_vars

(***************************************************************************)
(* Updates of the host on an edited timeline.                              *)
(***************************************************************************)

HsAnimations ==
    {Animation(Project(0, 0, 0, 0, 0), ds) :
        ds \in {<<>>,
                <<Descriptor(BackgroundId, "background", NoRaster)>>,
                <<Descriptor(Id("layer", 1), "foreground", NoRaster),
                  Descriptor(BackgroundId, "background", NoRaster)>>,
                <<Descriptor(Id("layer", 1), "foreground", Raster("host", 1))>>}}

HsInputs == {One}

InitHost == InitFrom(constructed(NaN, NaN, KfWidget), KfWidget)

NextHost ==
    \/ \E a \in HsAnimations : HostUpdate(a)
    \/ ExecuteNode
    \/ \E confirm \in BOOLEAN : RefreshFromCache(confirm)
    \/ \E v \in HsInputs : SetProp("x", v)
    \/ \E p \in pending, ok \in BOOLEAN : BulkDecodeDone(p, ok)
    \/ \E p \in pending, ok \in BOOLEAN : LazyDecodeDone(p, ok)
    \/ PersistFire
    \/ RenderFrame

SpecHost == InitHost /\ [][NextHost]_vars

\* C29: an update of the host that arrives while the keyframes widget holds
\* edited state, and forceServerReload is not set, leaves the layers of the
\* timeline as they are, whatever the update carries.
C29_UpdateKeepsLocalEdits ==
    [][lastOp'.name = "hostUpdate" /\ hasWidgetData(widgetKeyframes) /\ ~forceServerReload =>
          layers' = layers]_vars

(***************************************************************************)
(* Numeric inputs whose text may be no number.                             *)
(***************************************************************************)

\* What the width and height widgets of the node hold.
InWidgetSizes == {NaN, 10}

InValues == {NaN, One}

InTimes == {NaN, 4 * TicksPerSecond}

InWidths == {NaN, 800}

InHeights == {NaN, 600}

InRates == {NaN, 24}

InFrames == {NaN, 48}

\* The keyframes widget: absent, or holding a foreground layer and a
\* background.
InWidgets == {Widget(FALSE, FALSE, <<>>), KfWidget}

InitInputs ==
    \E ww \in InWidgetSizes, w \in InWidgets : InitFrom(constructed(ww, NaN, w), w)

NextInputs ==
    \/ \E v \in InValues : SetProp("x", v)
    \/ \E v \in InValues : SetBgProp("x", v)
    \/ \E t \in InTimes : Go(t)
    \/ \E i \in 1..Len(layers) : SelectLayer(layers[i].id)
    \/ \E w \in InWidths, h \in InHeights, f \in InRates, n \in InFrames : ApplySettings(w, h, f, n)
    \/ PersistFire
    \/ RenderFrame

SpecInputs == InitInputs /\ [][NextInputs]_vars

\* C30: a numeric input whose text is no number changes nothing: a
\* foreground or background property input leaves the layers as they are,
\* Go leaves the current time, and Apply leaves the width, the height, the
\* frame rate or the frame count whose field is no number.
C30_NonNumericInputIgnored ==
    [][/\ SetProp("x", NaN) \/ SetBgProp("x", NaN) => layers' = layers
       /\ Go(NaN) => currentTime' = currentTime /\ layers' = layers
       /\ (\E h \in InHeights, f \in InRates, n \in InFrames : ApplySettings(NaN, h, f, n))
              => width' = width
       /\ (\E w \in InWidths, f \in InRates, n \in InFrames : ApplySettings(w, NaN, f, n))
              => height' = height
       /\ (\E w \in InWidths, h \in InHeights, n \in InFrames : ApplySettings(w, h, NaN, n))
              => fps' = fps
       /\ (\E w \in InWidths, h \in InHeights, f \in InRates : ApplySettings(w, h, f, NaN))
              => totalFrames' = totalFrames]_vars

\* C31: an editor constructed on a keyframes widget whose text is no JSON,
\* or is JSON but no array, is in the default state: no layer, no
\* selection, 16 frames a second, 81 frames, 5 seconds, and nothing to
\* decode.
C31_UnparsableWidgetGivesDefaults ==
    lastOp.name = "constructor" /\ widgetKeyframes.present /\ ~widgetKeyframes.valid =>
        /\ layers = <<>> /\ selectedId = NullId
        /\ fps = 16 /\ totalFrames = 81 /\ duration = 5 * TicksPerSecond
        /\ currentTime = 0 /\ pending = {}

\* The text of the widget has a layer written in it and is no JSON array.
C31_Witness ==
    /\ lastOp.name = "constructor"
    /\ widgetKeyframes.present /\ ~widgetKeyframes.valid /\ Len(widgetKeyframes.layers) > 0
    /\ layers = <<>> /\ selectedId = NullId /\ fps = 16

(***************************************************************************)
(* Mask jitter.  The pixels of the mask canvas, row by row, and             *)
(* state.jitter.amount are kept in the probe; a pixel of the mask canvas is *)
(* one value, since the four channels are copied together.                  *)
(***************************************************************************)

\* timeline.js:158: jitter.amount after #createState.
DefaultAmount == 2

MinAmount == 1

MaxAmount == 10

\* The mask canvas of w by h pixels `data` and the amount; nothing jittered
\* yet.
MaskProbe(w, h, data, amount) ==
    [kind |-> "mask", w |-> w, h |-> h, data |-> data, amount |-> amount, by |-> "none"]

\* Twice the least distance from 0 of a number Math.round takes to c.
Nearest2(c) == IF c = 0 THEN 0 ELSE 2 * Abs(c) - 1

\* timeline.js:1361-1368 randUnit: the offsets it can return, the rounded
\* coordinates of a point less than `amount` away from the origin.
randUnit(amount) ==
    {o \in (0 - amount..amount) \X (0 - amount..amount) :
        Nearest2(o[1]) * Nearest2(o[1]) + Nearest2(o[2]) * Nearest2(o[2]) < 4 * amount * amount}

\* timeline.js:1372-1375: the source pixel of the output pixel k under the
\* offset o, clamped to the raster.
srcIdx(w, h, k, o) ==
    LET x == (k - 1) % w
        y == (k - 1) \div w
        sx == Min(w - 1, Max(0, x + o[1]))
        sy == Min(h - 1, Max(0, y + o[2]))
    IN sy * w + sx + 1

\* timeline.js:605-608: the jitter slider is moved to v (NaN: no number).
JitterInput(v) ==
    /\ probe.kind = "mask"
    /\ probe' = [probe EXCEPT !.amount = coerceIntIn(v, @, MinAmount, MaxAmount)]
    /\ lastOp' = Op("jitterInput", FALSE, FALSE, 0)
    /\ UNCHANGED <<playVars, hostVars>>
    /\ UNCHANGED <<projVars, toolVars, currentTime, layers, selectedId, dragKeyframe,
                   renderPending, redraws, persistTimer, timeouts, widgetKeyframes,
                   pending, loads, edits>>

\* timeline.js:1345-1384 #applyMaskJitter: every pixel of the mask canvas
\* takes the pixel at one of the offsets randUnit can return.
ApplyMaskJitter ==
    /\ probe.kind = "mask"
    /\ IF ~mask.enabled \/ probe.w = 0 \/ probe.h = 0
       THEN /\ probe' = [probe EXCEPT !.by = "applyMaskJitter rejected"]
            /\ UNCHANGED mask
       ELSE \E dst \in [1..(probe.w * probe.h) -> {probe.data[k] : k \in 1..(probe.w * probe.h)}] :
               /\ \A k \in 1..(probe.w * probe.h) :
                     dst[k] \in {probe.data[srcIdx(probe.w, probe.h, k, o)] :
                                    o \in randUnit(probe.amount)}
               /\ probe' = [probe EXCEPT !.by = "applyMaskJitter", !.data = dst]
               /\ mask' = IF dst = probe.data THEN mask ELSE [mask EXCEPT !.canvas = "edited"]
    /\ lastOp' = Op("maskJitter", FALSE, FALSE, 0)
    /\ UNCHANGED <<playVars, hostVars>>
    /\ UNCHANGED <<projVars, path, extract, drag, currentTime, layers, selectedId, dragKeyframe,
                   renderPending, redraws, persistTimer, timeouts, widgetKeyframes,
                   pending, loads, edits>>

(***************************************************************************)
(* SpecJitter: a mask canvas of 2 by 2 pixels, or of none, black but for    *)
(* at most one white pixel; the user enters and leaves mask mode, moves the *)
(* slider and applies the jitter.                                           *)
(***************************************************************************)

JiSizes == {[w |-> 2, h |-> 2], [w |-> 0, h |-> 2]}

JiAmounts == {NaN, 0, 1, 2}

JiWidget == Widget(FALSE, FALSE, <<>>)

\* The raster of n black pixels with the pixel at `white` white.
OneWhite(n, white) == [k \in 1..n |-> IF k = white THEN 255 ELSE 0]

InitJitter ==
    /\ InitState(constructed(NaN, NaN, JiWidget), JiWidget)
    /\ \E size \in JiSizes :
          \E white \in 0..(size.w * size.h) :
             probe = MaskProbe(size.w, size.h, OneWhite(size.w * size.h, white), DefaultAmount)

NextJitter ==
    \/ ToggleMaskMode
    \/ \E v \in JiAmounts : JitterInput(v)
    \/ ApplyMaskJitter
    \/ RenderFrame

SpecJitter == InitJitter /\ [][NextJitter]_vars

\* The offsets within the disk of radius amount.
Disk(amount) ==
    {o \in (0 - amount..amount) \X (0 - amount..amount) :
        o[1] * o[1] + o[2] * o[2] <= amount * amount}

\* C32: mask jitter with an amount in 1..10 gives every pixel of the mask
\* canvas the value of the source pixel at an offset within the disk of
\* radius amount, clamped to the raster; it changes nothing but the mask
\* canvas, and not even that when mask mode is off or the canvas is empty.
C32_JitterCopiesWithinDisk ==
    [][lastOp'.name = "maskJitter" =>
          /\ probe'.amount \in MinAmount..MaxAmount
          /\ layers' = layers /\ widgetKeyframes' = widgetKeyframes
          /\ IF mask.enabled /\ probe.w # 0 /\ probe.h # 0
             THEN \A k \in 1..(probe.w * probe.h) :
                     \E o \in Disk(probe.amount) :
                        probe'.data[k] = probe.data[srcIdx(probe.w, probe.h, k, o)]
             ELSE probe'.data = probe.data /\ mask' = mask]_vars

\* C33: whenever extract mode is enabled, the layers hold a background
\* with a decoded raster.
C33_ExtractModeHasBackgroundRaster ==
    extract.enabled => \E i \in 1..Len(layers) :
                          layers[i].type = "background" /\ layers[i].img # NoRaster

\* C34: the current time is never below 0 and never above the duration.
C34_CurrentTimeWithinDuration ==
    0 <= currentTime /\ currentTime <= duration

\* C35: the selection is null or the id of a layer of the timeline.
C35_SelectionIsNullOrALayer ==
    selectedId = NullId \/ \E i \in 1..Len(layers) : layers[i].id = selectedId

\* The track a keyframe drag works on, in the layers ls.
DraggedTrack(ls) ==
    LET i == CHOOSE j \in IndexOfOid(ls, dragKeyframe.layer) : TRUE
    IN ls[i].keyframes[dragKeyframe.prop]

\* C36: during one timeline drag only the grabbed keyframe changes its time.
\* After a move the grabbed keyframe is the one at the current time, so
\* the next move of the drag takes a keyframe from the current time to the
\* pointer and leaves every other sample of the track as it is.
C36_DragMovesOnlyGrabbed ==
    [][/\ lastOp.name = "timelineMove" /\ lastOp'.name = "timelineMove"
       /\ IndexOfOid(layers, dragKeyframe.layer) # {}
       => \E j \in 1..Len(DraggedTrack(layers)), k \in 1..Len(DraggedTrack(layers')) :
             /\ DraggedTrack(layers)[j].time = currentTime
             /\ DraggedTrack(layers')[k] = [DraggedTrack(layers)[j] EXCEPT !.time = currentTime']
             /\ RemoveAt(DraggedTrack(layers), j) = RemoveAt(DraggedTrack(layers'), k)]_vars

\* C37: when a request of a burst asked for the image cache, the write of
\* the burst holds the image data of every layer that has any.  The pending
\* timer carries what the burst has asked for so far: once it includes the
\* image cache it keeps including it until it fires, and the write it makes
\* then holds the image data of every layer.
C37_BurstKeepsImageCache ==
    [][/\ persistTimer.set /\ persistTimer.include /\ persistTimer'.set => persistTimer'.include
       /\ lastOp'.name = "persistFire" /\ persistTimer.include =>
             \A i \in 1..Len(layers) :
                widgetKeyframes'.layers[i].image_data = layers[i].image_data]_vars

\* The steps the editor takes by itself: a redraw, a decode that settles,
\* the persist timer.
OwnSteps == {"renderFrame", "decoded", "lazyDecoded", "persistFire"}

\* C38: after a lazy decode has failed the editor comes to rest: when from
\* some point on no user or host event arrives, then from some point on no
\* decode is started.
C38_FailedDecodeComesToRest ==
    <>[][lastOp'.name \in OwnSteps]_vars => <>[][pending' \subseteq pending]_vars

\* C39: an extraction is all or nothing: whenever the background carries
\* the hole-filled raster data of an extraction, the foreground layer that
\* extraction made is among the layers.
C39_ExtractionAllOrNothing ==
    \A i \in 1..Len(layers) :
        layers[i].type = "background" /\ layers[i].image_data.src = "filled" =>
            \E j \in 1..Len(layers) :
                layers[j].image_data = Raster("extracted", layers[i].image_data.n)

====
